---- MODULE Spec2Model ----
(***************************************************************************)
(* A model of the simulation core of gloom (src/tkgame_gloom.py): the      *)
(* weapon/ammunition state machine, damage application, item pickup,       *)
(* doors and keycards, and the per-tick game loop.                         *)
(*                                                                         *)
(* Real-valued quantities are kept exact: hit points and armor are held in *)
(* hundredths (the code multiplies damage by pierce/100), coordinates are  *)
(* integers.                                                               *)
(***************************************************************************)
EXTENDS Integers, Sequences, FiniteSets, TLC

VARIABLES
    \* ---- Weapon (class Weapon, one instance) ----
    weapon,        \* [cls, num_bullets, mag, left, us, ur]: the instance's
                   \* class, num_bullets, _bullets_left_in_magazine,
                   \* _bullets_left, _until_shoot, _until_reload
    out,           \* number of bullet descriptors the last call returned
    op,            \* what the last call on the weapon did
    pre,           \* before the last call: [w, shots, sinceShot, sinceReload]
    shots,         \* successful shots since construction or the last reload
    sinceShot,     \* tick calls since the last shot, saturating at rate
    sinceReload,   \* tick calls since the last reload, saturating at reload_rate
    reloads,       \* reload() calls made so far (under tick calls: whether
                   \* a reload has happened, 0 or 1)
    npickups,      \* same-class pickups applied so far
    \* ---- PlayerOrEnemy under hit() calls ----
    sentient,      \* [cls, hp, armor, dead, in_sprites]; hp and armor in
                   \* hundredths
    event_queue,   \* Game.event_queue: the events sent and not yet drained
    preHit,        \* before the last hit() call: [hp, armor, dead, queue]
    lastBullet,    \* the bullet of the last hit() call: [dmg, pierce]
    lateHits,      \* hit() calls made on the entity when already dead
    \* ---- GLOOM (the game object and its sprites) ----
    game           \* the attributes of the GLOOM instance, its sprites
                   \* (game.sprites, by identity) and its Weapon objects
                   \* (game.wobj, by identity)

wvars == <<weapon, out, op, pre, shots, sinceShot, sinceReload, reloads,
           npickups>>

hvars == <<sentient, event_queue, preHit, lastBullet, lateHits>>

gvars == <<game>>

vars == <<weapon, out, op, pre, shots, sinceShot, sinceReload, reloads,
          npickups, sentient, event_queue, preHit, lastBullet, lateHits,
          game>>

----------------------------------------------------------------------------
\* Bounds of the model.

\* Largest initial ammunition count (constructor argument) explored.
MaxAmmo == 200
\* Largest number of same-class weapon pickups applied to one weapon.
MaxPickups == 1
\* Largest initial ammunition count of a weapon that receives pickups.
MaxPickupAmmo == 100
\* Largest class hit points (in whole points) of the entities hit.
MaxHp == 100
\* Largest number of hit() calls counted on an entity that is already dead.
MaxLateHits == 2
\* Largest number of consecutive direct reload() calls.
MaxReloads == 2

Max(a, b) == IF a >= b THEN a ELSE b
Min(a, b) == IF a <= b THEN a ELSE b

----------------------------------------------------------------------------
\* The weapon classes and their class constants.

WeaponClass ==
    [ Pistol |->
        [rng |-> 500, dmg |-> 10, pierce |-> 50, speed |-> 10, spread |-> 0,
         bullets_per_mg |-> 15, bullets_per_shot |-> 1, rate |-> 25,
         reload_rate |-> 75],
      Shotgun |->
        [rng |-> 400, dmg |-> 20, pierce |-> 40, speed |-> 15, spread |-> 12,
         bullets_per_mg |-> 5, bullets_per_shot |-> 5, rate |-> 0,
         reload_rate |-> 75],
      MachineGun |->
        [rng |-> 600, dmg |-> 5, pierce |-> 60, speed |-> 14, spread |-> 0,
         bullets_per_mg |-> 50, bullets_per_shot |-> 1, rate |-> 5,
         reload_rate |-> 75],
      RocketLauncher |->
        [rng |-> 800, dmg |-> 200, pierce |-> 100, speed |-> 5, spread |-> 0,
         bullets_per_mg |-> 1, bullets_per_shot |-> 1, rate |-> 0,
         reload_rate |-> 150],
      TouchOfDeath |->
        [rng |-> 800, dmg |-> 200, pierce |-> 100, speed |-> 8, spread |-> 0,
         bullets_per_mg |-> 1, bullets_per_shot |-> 1, rate |-> 0,
         reload_rate |-> 20],
      DoubleBarrelShotgun |->
        [rng |-> 400, dmg |-> 15, pierce |-> 35, speed |-> 13, spread |-> 20,
         bullets_per_mg |-> 7, bullets_per_shot |-> 7, rate |-> 0,
         reload_rate |-> 125],
      DesertEagle |->
        [rng |-> 500, dmg |-> 30, pierce |-> 75, speed |-> 12, spread |-> 0,
         bullets_per_mg |-> 15, bullets_per_shot |-> 1, rate |-> 50,
         reload_rate |-> 100],
      AssaultRifle |->
        [rng |-> 600, dmg |-> 3, pierce |-> 60, speed |-> 16, spread |-> 0,
         bullets_per_mg |-> 100, bullets_per_shot |-> 1, rate |-> 1,
         reload_rate |-> 75],
      QuadBarrelShotgun |->
        [rng |-> 400, dmg |-> 12, pierce |-> 30, speed |-> 15, spread |-> 24,
         bullets_per_mg |-> 12, bullets_per_shot |-> 12, rate |-> 0,
         reload_rate |-> 125] ]

WeaponClasses == DOMAIN WeaponClass

\* The ammunition counts the program constructs weapons with: the player's
\* starting Pistol(200), the enemies' _weapon(_ammo), and a picked-up
\* weapclass(weapclass.bullets_per_mg).
EnemyAmmo ==
    [ Pistol |-> {30, 200}, Shotgun |-> {20}, MachineGun |-> {},
      RocketLauncher |-> {}, TouchOfDeath |-> {2000000},
      DoubleBarrelShotgun |-> {}, DesertEagle |-> {},
      AssaultRifle |-> {1000}, QuadBarrelShotgun |-> {} ]

NumBullets(c) ==
    { n \in (IF c = "Pistol" THEN {200} ELSE {}) \cup EnemyAmmo[c]
              \cup {WeaponClass[c].bullets_per_mg} : n <= MaxAmmo }

\* Weapon.__init__
NewWeapon(c, num_bullets) ==
    [cls |-> c, num_bullets |-> num_bullets,
     mag |-> WeaponClass[c].bullets_per_mg, left |-> num_bullets,
     us |-> 0, ur |-> 0]

\* len(self._bullet_angles): range(-(n // 2), n % 2) chained with
\* range(1, n // 2 + 1), n = bullets_per_shot.
NumBulletAngles(c) ==
    LET n == WeaponClass[c].bullets_per_shot
    IN  Max((n % 2) + (n \div 2), 0) + Max(n \div 2, 0)

\* PickupMg with the magazine topped up by addition, as reload() does.
PickupMg_AddsToMagazine(w) ==
    [w EXCEPT !.left = w.left + WeaponClass[w.cls].bullets_per_mg,
              !.mag = w.mag + WeaponClass[w.cls].bullets_per_mg]

\* Weapon.pickup_mg, and the same-class branch of
\* WeaponPickupItem.on_pickup_item, which repeats its two assignments.
PickupMg(w) ==
    [w EXCEPT !.left = w.left + WeaponClass[w.cls].bullets_per_mg,
              !.mag = WeaponClass[w.cls].bullets_per_mg]

\* Weapon.reload
Reload(w) ==
    [w EXCEPT !.ur = WeaponClass[w.cls].reload_rate,
              !.left = w.left - w.mag,
              !.mag = w.mag + WeaponClass[w.cls].bullets_per_mg]

\* Weapon.shoot: the weapon afterwards, the number of bullet descriptors
\* returned, and which branch ran.
Shoot(w) ==
    LET c  == WeaponClass[w.cls]
        w1 == [w EXCEPT !.us = c.rate]
    IN  IF c.bullets_per_shot > w1.mag
        THEN [w |-> Reload(w1), out |-> 0, did |-> "reload"]
        ELSE [w |-> [w1 EXCEPT !.mag = w1.mag - c.bullets_per_shot,
                               !.left = w1.left - c.bullets_per_shot],
              out |-> NumBulletAngles(w.cls), did |-> "shoot"]

\* Tick with the cooldown test placed before the empty-magazine test.
Tick_CooldownFirst(w, fire) ==
    LET c  == WeaponClass[w.cls]
        w1 == [w EXCEPT !.us = Max(w.us - 1, 0), !.ur = Max(w.ur - 1, 0)]
    IN  IF ~fire
        THEN [w |-> w1, out |-> 0, did |-> "idle"]
        ELSE IF ~(w1.us = 0 /\ w1.ur = 0)
        THEN [w |-> w1, out |-> 0, did |-> "cool"]
        ELSE IF w1.mag < c.bullets_per_shot
        THEN IF w1.left > 0
             THEN [w |-> Reload(w1), out |-> 0, did |-> "reload"]
             ELSE [w |-> w1, out |-> 0, did |-> "dry"]
        ELSE Shoot(w1)

\* Tick that fires as soon as the fire cooldown is over, whatever the reload
\* cooldown.
Tick_IgnoresReloadCooldown(w, fire) ==
    LET c  == WeaponClass[w.cls]
        w1 == [w EXCEPT !.us = Max(w.us - 1, 0), !.ur = Max(w.ur - 1, 0)]
    IN  IF ~fire
        THEN [w |-> w1, out |-> 0, did |-> "idle"]
        ELSE IF w1.mag < c.bullets_per_shot
        THEN IF w1.left > 0
             THEN [w |-> Reload(w1), out |-> 0, did |-> "reload"]
             ELSE [w |-> w1, out |-> 0, did |-> "dry"]
        ELSE IF w1.us = 0
        THEN Shoot(w1)
        ELSE [w |-> w1, out |-> 0, did |-> "cool"]

\* Weapon.tick; fire is TRUE when the shoot argument is given.
Tick(w, fire) ==
    LET c  == WeaponClass[w.cls]
        w1 == [w EXCEPT !.us = Max(w.us - 1, 0), !.ur = Max(w.ur - 1, 0)]
    IN  IF ~fire
        THEN [w |-> w1, out |-> 0, did |-> "idle"]
        ELSE IF w1.mag < c.bullets_per_shot
        THEN IF w1.left > 0
             THEN [w |-> Reload(w1), out |-> 0, did |-> "reload"]
             ELSE [w |-> w1, out |-> 0, did |-> "dry"]
        ELSE IF w1.us = 0 /\ w1.ur = 0
        THEN Shoot(w1)
        ELSE [w |-> w1, out |-> 0, did |-> "cool"]

----------------------------------------------------------------------------
\* One weapon under tick calls and same-class pickups.

\* The history of a weapon w on which no call has been made yet.
FreshHistory(w) ==
    /\ sinceShot = WeaponClass[w.cls].rate
    /\ sinceReload = WeaponClass[w.cls].reload_rate
    /\ pre = [w |-> w, shots |-> 0,
              sinceShot |-> WeaponClass[w.cls].rate,
              sinceReload |-> WeaponClass[w.cls].reload_rate]
    /\ out = 0
    /\ op = "init"
    /\ shots = 0
    /\ reloads = 0

Snapshot ==
    [w |-> weapon, shots |-> shots, sinceShot |-> sinceShot,
     sinceReload |-> sinceReload]

\* The variables of the other parts of the model, held still.
NoGame == game = [started |-> FALSE]

NoSentient ==
    /\ sentient = [cls |-> "none", hp |-> 0, armor |-> 0, dead |-> FALSE,
                   in_sprites |-> FALSE]
    /\ event_queue = <<>>
    /\ preHit = [hp |-> 0, armor |-> 0, dead |-> FALSE, queue |-> <<>>]
    /\ lastBullet = [dmg |-> 0, pierce |-> 0]
    /\ lateHits = 0

WeaponInit ==
    /\ \E c \in WeaponClasses : \E n \in NumBullets(c) :
           /\ weapon = NewWeapon(c, n)
           /\ FreshHistory(NewWeapon(c, n))
    /\ npickups = 0
    /\ NoSentient
    /\ NoGame

\* The history variables after a tick call whose result is r.
TickHistory(r) ==
    LET c == WeaponClass[weapon.cls]
    IN  /\ pre' = Snapshot
        /\ op' = r.did
        /\ out' = r.out
        /\ shots' = IF r.did = "reload" THEN 0
                    ELSE IF r.did = "shoot"
                         THEN Min(shots + 1, c.bullets_per_mg + 1)
                         ELSE shots
        /\ sinceShot' = IF r.did = "shoot" THEN 0
                        ELSE Min(sinceShot + 1, c.rate)
        /\ sinceReload' = IF r.did = "reload" THEN 0
                          ELSE Min(sinceReload + 1, c.reload_rate)
        /\ reloads' = IF r.did = "reload" THEN Max(reloads, 1) ELSE reloads

\* weapon.tick(shoot) with a shoot argument (GLOOM.tick with the mouse held,
\* GLOOM._on_shoot).
TickFire ==
    LET r == Tick(weapon, TRUE)
    IN  /\ weapon' = r.w
        /\ TickHistory(r)
        /\ UNCHANGED <<npickups, hvars, gvars>>

\* weapon.tick() (GLOOM.tick for the weapons not fired, Enemy.sprite_tick).
TickIdle ==
    LET r == Tick(weapon, FALSE)
    IN  /\ weapon' = r.w
        /\ TickHistory(r)
        /\ UNCHANGED <<npickups, hvars, gvars>>

\* WeaponPickupItem.on_pickup_item when the roster holds a weapon of the
\* item's class.
PickupSameClass ==
    /\ npickups < MaxPickups
    /\ weapon.num_bullets <= MaxPickupAmmo
    /\ weapon' = PickupMg(weapon)
    /\ pre' = Snapshot
    /\ op' = "pickup"
    /\ out' = 0
    /\ npickups' = npickups + 1
    /\ UNCHANGED <<shots, sinceShot, sinceReload, reloads, hvars, gvars>>

WeaponNext == TickFire \/ TickIdle \/ PickupSameClass

SpecWeapon == WeaponInit /\ [][WeaponNext]_vars

\* Ticks with fire intent only, from a freshly constructed weapon.
FireNext == TickFire

SpecFire == WeaponInit /\ [][FireNext]_vars

\* Ticks with and without fire intent, no pickups.
TickNext == TickFire \/ TickIdle

SpecTick == WeaponInit /\ [][TickNext]_vars

----------------------------------------------------------------------------
\* reload() called directly, up to MaxReloads times in a row, on a weapon
\* that holds at least two magazines' worth of ammunition: the weapon as it
\* is after p same-class pickups and k shots.

ReloadInit ==
    \E c \in WeaponClasses : \E n \in NumBullets(c) : \E p \in 0..MaxPickups :
      \E k \in 0..(WeaponClass[c].bullets_per_mg
                      \div WeaponClass[c].bullets_per_shot) :
        LET wc == WeaponClass[c]
            w  == [cls |-> c, num_bullets |-> n,
                   mag |-> wc.bullets_per_mg - k * wc.bullets_per_shot,
                   left |-> n + p * wc.bullets_per_mg - k * wc.bullets_per_shot,
                   us |-> 0, ur |-> 0]
        IN  /\ w.left >= 2 * wc.bullets_per_mg
            /\ weapon = w
            /\ FreshHistory(w)
            /\ npickups = p
            /\ NoSentient
            /\ NoGame

\* weapon.reload()
ReloadCall ==
    /\ reloads < MaxReloads
    /\ weapon' = Reload(weapon)
    /\ pre' = Snapshot
    /\ op' = "reload"
    /\ out' = 0
    /\ shots' = 0
    /\ sinceReload' = 0
    /\ reloads' = reloads + 1
    /\ UNCHANGED <<sinceShot, npickups, hvars, gvars>>

ReloadNext == ReloadCall

SpecReload == ReloadInit /\ [][ReloadNext]_vars

----------------------------------------------------------------------------
\* Claims about the weapon.

Cls == WeaponClass[weapon.cls]

\* The outcomes of a tick call made with fire intent.
FireOps == {"shoot", "reload", "dry", "cool"}

\* C4: under any sequence of tick calls (with or without fire intent) and
\* same-class pickups, on every weapon class, the magazine content lies
\* between 0 and bullets_per_mg inclusive.
C4_MagazineWithinCapacity ==
    /\ 0 <= weapon.mag
    /\ weapon.mag <= Cls.bullets_per_mg

\* A pickup has topped up a partly used magazine of a weapon that has
\* already reloaded once.
C4_Witness ==
    /\ op = "pickup"
    /\ reloads >= 1
    /\ pre.w.mag < Cls.bullets_per_mg
    /\ weapon.mag = Cls.bullets_per_mg

\* C5: under tick calls with fire intent from a freshly constructed weapon,
\* the total pool includes the magazine: bullets_left >=
\* bullets_left_in_magazine >= 0.
C5_TotalIncludesMagazine ==
    /\ weapon.left >= weapon.mag
    /\ weapon.mag >= 0

\* C6 as stated: after bullets_per_mg consecutive successful shots with no
\* reload in between the magazine is empty, and the next tick call with fire
\* intent performs a reload (magazine refilled, reload cooldown started) and
\* emits no bullet.
C6_AlwaysReloads ==
    /\ shots = Cls.bullets_per_mg => weapon.mag = 0
    /\ (pre.shots = Cls.bullets_per_mg /\ op \in FireOps) =>
           /\ op = "reload"
           /\ out = 0
           /\ weapon.mag = Cls.bullets_per_mg
           /\ weapon.ur = Cls.reload_rate

\* C6 as amended: after bullets_per_mg consecutive successful shots with no
\* reload in between the magazine is empty, and the next tick call with fire
\* intent emits no bullet; it performs a reload (magazine refilled, reload
\* cooldown started) when bullets_left > 0, and otherwise leaves the empty
\* magazine and the total as they are.
C6_ReloadsWhenAmmoRemains ==
    /\ shots = Cls.bullets_per_mg => weapon.mag = 0
    /\ (pre.shots = Cls.bullets_per_mg /\ op \in FireOps) =>
           /\ out = 0
           /\ IF pre.w.left > 0
              THEN /\ op = "reload"
                   /\ weapon.mag = Cls.bullets_per_mg
                   /\ weapon.ur = Cls.reload_rate
              ELSE /\ op = "dry"
                   /\ weapon.mag = 0
                   /\ weapon.left = pre.w.left

\* The tick call after a full magazine of single-round shots reloaded.
C6_Witness ==
    /\ pre.shots = Cls.bullets_per_mg
    /\ op = "reload"
    /\ pre.w.mag = 0
    /\ weapon.mag = Cls.bullets_per_mg

\* C7: reload() called twice in a row on a weapon with bullets_left >=
\* 2*bullets_per_mg leaves the magazine at bullets_per_mg after each call,
\* and each call lowers bullets_left by the magazine content held before it.
C7_ReloadTwice ==
    reloads >= 1 =>
        /\ weapon.mag = Cls.bullets_per_mg
        /\ weapon.left = pre.w.left - pre.w.mag

\* C8: a tick call with fire intent executes a shot only when, after that
\* call's cooldown decrement, until_shoot and until_reload are both 0 and
\* the magazine holds at least bullets_per_shot rounds; so a shot is at
\* least rate tick calls after the previous shot and at least reload_rate
\* tick calls after the last reload.
C8_ShotOnlyWhenCooledDown ==
    op = "shoot" =>
        /\ out > 0
        /\ Max(pre.w.us - 1, 0) = 0
        /\ Max(pre.w.ur - 1, 0) = 0
        /\ pre.w.mag >= Cls.bullets_per_shot
        /\ pre.sinceShot + 1 >= Cls.rate
        /\ pre.sinceReload + 1 >= Cls.reload_rate

\* A shot on the first tick call on which the reload cooldown allows it,
\* by a weapon with a fire cooldown that has shot before.
C8_Witness ==
    /\ op = "shoot"
    /\ reloads >= 1
    /\ Cls.rate > 0
    /\ pre.sinceReload = Cls.reload_rate - 1

----------------------------------------------------------------------------
\* Damage: PlayerOrEnemy.hit.

\* bullet.pierce is a percentage; hp and armor are held multiplied by it.
PierceScale == 100

\* hp and armor of the Player (PlayerOrEnemy.__init__ defaults) and of the
\* enemy classes (_hp, _armor), in whole points.
SentientClass ==
    [ Player        |-> [hp |-> 100,  armor |-> 0],
      Pistoller     |-> [hp |-> 50,   armor |-> 0],
      Shotgunner    |-> [hp |-> 40,   armor |-> 0],
      Defender      |-> [hp |-> 100,  armor |-> 100],
      SchoolShooter |-> [hp |-> 20,   armor |-> 100],
      Death         |-> [hp |-> 2500, armor |-> 500] ]

\* The weapon classes whose bullets are fired at the entity.
HitWeapons == {"Pistol", "Shotgun", "DesertEagle", "RocketLauncher"}

\* The dmg and pierce a Bullet gets from the weapon that shot it
\* (Weapon.shoot, Bullet.__init__).
BulletOf(c) == [dmg |-> WeaponClass[c].dmg, pierce |-> WeaponClass[c].pierce]

\* PlayerOrEnemy.__init__ / Enemy.__init__
NewSentient(c) ==
    [cls |-> c, hp |-> SentientClass[c].hp * PierceScale,
     armor |-> SentientClass[c].armor * PierceScale,
     dead |-> FALSE, in_sprites |-> TRUE]

\* hit() without its guard on dead.
Hit_NoDeadGuard(e, bullet) ==
    LET hp1    == e.hp - bullet.dmg * bullet.pierce
        armor1 == Max(e.armor - bullet.dmg * (PierceScale - bullet.pierce), 0)
    IN  IF hp1 <= 0
        THEN [e |-> [e EXCEPT !.hp = hp1, !.armor = armor1, !.dead = TRUE,
                              !.in_sprites = FALSE],
              died |-> TRUE]
        ELSE [e |-> [e EXCEPT !.hp = hp1, !.armor = armor1], died |-> FALSE]

\* hit() that takes from hp the armor damage the armor could not absorb.
Hit_CarriesExcessToHp(e, bullet) ==
    LET share  == bullet.dmg * (PierceScale - bullet.pierce)
        excess == Max(share - e.armor, 0)
        hp1    == e.hp - bullet.dmg * bullet.pierce - excess
        armor1 == Max(e.armor - share, 0)
    IN  IF e.dead
        THEN [e |-> e, died |-> FALSE]
        ELSE IF hp1 <= 0
        THEN [e |-> [e EXCEPT !.hp = hp1, !.armor = armor1, !.dead = TRUE,
                              !.in_sprites = FALSE],
              died |-> TRUE]
        ELSE [e |-> [e EXCEPT !.hp = hp1, !.armor = armor1], died |-> FALSE]

\* hit() that applies the whole damage to hp once the armor is gone.
Hit_FullDamageAtZeroArmor(e, bullet) ==
    LET hp1    == IF e.armor = 0
                  THEN e.hp - bullet.dmg * PierceScale
                  ELSE e.hp - bullet.dmg * bullet.pierce
        armor1 == Max(e.armor - bullet.dmg * (PierceScale - bullet.pierce), 0)
    IN  IF e.dead
        THEN [e |-> e, died |-> FALSE]
        ELSE IF hp1 <= 0
        THEN [e |-> [e EXCEPT !.hp = hp1, !.armor = armor1, !.dead = TRUE,
                              !.in_sprites = FALSE],
              died |-> TRUE]
        ELSE [e |-> [e EXCEPT !.hp = hp1, !.armor = armor1], died |-> FALSE]

\* PlayerOrEnemy.hit: the entity afterwards and whether this call killed it
\* (on_die, send_event("die") and quit() then run).
Hit(e, bullet) ==
    LET hp1    == e.hp - bullet.dmg * bullet.pierce
        armor1 == Max(e.armor - bullet.dmg * (PierceScale - bullet.pierce), 0)
    IN  IF e.dead
        THEN [e |-> e, died |-> FALSE]
        ELSE IF hp1 <= 0
        THEN [e |-> [e EXCEPT !.hp = hp1, !.armor = armor1, !.dead = TRUE,
                              !.in_sprites = FALSE],
              died |-> TRUE]
        ELSE [e |-> [e EXCEPT !.hp = hp1, !.armor = armor1], died |-> FALSE]

\* Sprite.send_event
SendEvent(queue, etype, caller) ==
    Append(queue, [etype |-> etype, caller |-> caller])

NoWeapon ==
    /\ weapon = NewWeapon("Pistol", 0)
    /\ FreshHistory(NewWeapon("Pistol", 0))
    /\ npickups = 0

HitInit ==
    /\ \E c \in DOMAIN SentientClass :
           /\ SentientClass[c].hp <= MaxHp
           /\ sentient = NewSentient(c)
    /\ event_queue = <<>>
    /\ preHit = [hp |-> 0, armor |-> 0, dead |-> FALSE, queue |-> <<>>]
    /\ lastBullet = [dmg |-> 0, pierce |-> 0]
    /\ lateHits = 0
    /\ NoWeapon
    /\ NoGame

\* sentient.hit(bullet), for a bullet of any of the weapons fired.
HitCall ==
    \E c \in HitWeapons :
        LET r == Hit(sentient, BulletOf(c))
        IN  /\ sentient.dead => lateHits < MaxLateHits
            /\ sentient' = r.e
            /\ event_queue' = IF r.died
                              THEN SendEvent(event_queue, "die", sentient.cls)
                              ELSE event_queue
            /\ preHit' = [hp |-> sentient.hp, armor |-> sentient.armor,
                          dead |-> sentient.dead, queue |-> event_queue]
            /\ lastBullet' = BulletOf(c)
            /\ lateHits' = IF sentient.dead THEN lateHits + 1 ELSE lateHits
            /\ UNCHANGED <<wvars, gvars>>

HitNext == HitCall

SpecHit == HitInit /\ [][HitNext]_vars

\* A hit() call has been made (every bullet has dmg > 0).
WasHit == lastBullet.dmg > 0

\* The "die" events in the queue.
DieEvents == { i \in 1..Len(event_queue) : event_queue[i].etype = "die" }

\* C1: under any sequence of hit() calls the entity becomes dead at most
\* once, at the first hit that brings hp to 0 or below; exactly one "die"
\* event is enqueued for it; every later hit() leaves hp, armor and the
\* event queue unchanged.
C1_DiesOnce ==
    /\ sentient.dead <=> sentient.hp <= 0
    /\ Cardinality(DieEvents) = (IF sentient.dead THEN 1 ELSE 0)
    /\ \A i \in DieEvents : event_queue[i].caller = sentient.cls
    /\ (WasHit /\ ~preHit.dead /\ sentient.dead) =>
           /\ preHit.hp > 0
           /\ Len(event_queue) = Len(preHit.queue) + 1
    /\ (WasHit /\ preHit.dead) =>
           /\ sentient.dead
           /\ sentient.hp = preHit.hp
           /\ sentient.armor = preHit.armor
           /\ event_queue = preHit.queue

\* A dead entity has been hit again, twice.
C1_Witness ==
    /\ sentient.dead
    /\ preHit.dead
    /\ lateHits = MaxLateHits
    /\ Len(event_queue) = 1

\* The armor share of the last bullet's damage, in hundredths.
ArmorShare == lastBullet.dmg * (PierceScale - lastBullet.pierce)
\* The hp share of the last bullet's damage, in hundredths.
BodyShare == lastBullet.dmg * lastBullet.pierce

\* C2: armor is never negative; in a hit whose armor share of the damage
\* exceeds the remaining armor, armor becomes 0 and hp decreases by exactly
\* damage*pierce/100.
C2_ArmorFloor ==
    /\ sentient.armor >= 0
    /\ (WasHit /\ ~preHit.dead /\ ArmorShare > preHit.armor) =>
           /\ sentient.armor = 0
           /\ sentient.hp = preHit.hp - BodyShare

\* A hit took more armor than was left, from an entity that had some.
C2_Witness ==
    /\ WasHit
    /\ ~preHit.dead
    /\ preHit.armor > 0
    /\ ArmorShare > preHit.armor
    /\ sentient.armor = 0

\* The last hit() call was made with a Pistol bullet (pierce=50, dmg=10)
\* on a live entity of a class that has armor.
PistolHitOnArmored ==
    /\ WasHit
    /\ lastBullet = [dmg |-> 10, pierce |-> 50]
    /\ ~preHit.dead
    /\ SentientClass[sentient.cls].armor > 0

\* C3 as stated: with pierce=50 and dmg=10, hit() lowers hp and armor by 5
\* each while armor remains; once armor has reached 0, each further hit
\* applies the bullet's full damage (10) to hp only.
C3_FullDamageWithoutArmor ==
    PistolHitOnArmored =>
        /\ preHit.armor >= 5 * PierceScale =>
               /\ sentient.hp = preHit.hp - 5 * PierceScale
               /\ sentient.armor = preHit.armor - 5 * PierceScale
        /\ preHit.armor = 0 =>
               /\ sentient.hp = preHit.hp - 10 * PierceScale
               /\ sentient.armor = 0

\* C3 as amended: with pierce=50 and dmg=10, hit() lowers hp and armor by 5
\* each while armor remains; once armor has reached 0, each further hit
\* still lowers hp by exactly 5 (the pierce share) and leaves armor at 0.
C3_PierceShareWithoutArmor ==
    PistolHitOnArmored =>
        /\ preHit.armor >= 5 * PierceScale =>
               /\ sentient.hp = preHit.hp - 5 * PierceScale
               /\ sentient.armor = preHit.armor - 5 * PierceScale
        /\ preHit.armor = 0 =>
               /\ sentient.hp = preHit.hp - 5 * PierceScale
               /\ sentient.armor = 0

\* A Pistol bullet has hit a live entity whose armor had been worn down
\* to 0.
C3_Witness ==
    /\ PistolHitOnArmored
    /\ preHit.armor = 0
    /\ sentient.hp = preHit.hp - 5 * PierceScale

----------------------------------------------------------------------------
\* The game: the GLOOM instance and its sprites.  Coordinates are whole
\* pixels; a rectangle (class Coords holding two corner vectors) is the
\* record [x0, y0, x1, y1].  A sprite is known by its identity, a number,
\* and game.sprites maps the identities of the sprites still referenced to
\* their attributes.

\* Game.screen_size as the display gives it, and the resolution of the tile
\* maps of the level file.
ScreenSize == <<72, 6>>

Resolution == <<12, 1>>

\* Tilemap.cell_size
CellSize ==
    <<ScreenSize[1] \div Resolution[1], ScreenSize[2] \div Resolution[2]>>

\* Tilemap.calculate_cell_coords
CalculateCellCoords(x, y) ==
    [x0 |-> x * CellSize[1], y0 |-> y * CellSize[2],
     x1 |-> (x + 1) * CellSize[1], y1 |-> (y + 1) * CellSize[2]]

\* The rectangle of a wall that Tilemap.__init__ merged from cell (xa, ya)
\* to cell (xb, yb): the first cell's, its second corner replaced by the
\* last cell's.
MergedCoords(xa, ya, xb, yb) ==
    [CalculateCellCoords(xa, ya) EXCEPT
        !.x1 = CalculateCellCoords(xb, yb).x1,
        !.y1 = CalculateCellCoords(xb, yb).y1]

\* The levels of the level file as Tilemap.__init__ leaves them (walls,
\* enemies, items, doors, player_coords, exit_coords), for the tile rows
\*     level 1:   ##a.^.1A._##    a = bluekeycard, 1 = bluedoor, A = defender
\*     level 2:   ##.^.a.._.##    a = armor
Levels ==
    << [walls   |-> <<MergedCoords(0, 0, 1, 0), MergedCoords(10, 0, 11, 0)>>,
        enemies |-> <<[cls |-> "Defender", coords |-> CalculateCellCoords(7, 0)]>>,
        items   |-> <<[cls |-> "BlueKeyCard", coords |-> CalculateCellCoords(2, 0)]>>,
        doors   |-> <<[cls |-> "BlueDoor", coords |-> CalculateCellCoords(6, 0)]>>,
        player_coords |-> CalculateCellCoords(4, 0),
        exit_coords   |-> CalculateCellCoords(9, 0)],
       [walls   |-> <<MergedCoords(0, 0, 1, 0), MergedCoords(10, 0, 11, 0)>>,
        enemies |-> <<>>,
        items   |-> <<[cls |-> "Armor", coords |-> CalculateCellCoords(5, 0)]>>,
        doors   |-> <<>>,
        player_coords |-> CalculateCellCoords(3, 0),
        exit_coords   |-> CalculateCellCoords(8, 0)] >>

\* GLOOM.player_speed, the class attribute.
PlayerSpeed == 3

\* The ticks with the mouse held, and the on_pickup() calls made on an item
\* from outside GLOOM.tick, are bounded.
MaxShots == 1

MaxDirectCalls == 2

\* The presses of the r key are bounded.
MaxResets == 1

\* The inputs of a tick: the sets of keys that can be down (keys_down), the
\* multiples of the nominal frame time a frame can take (deltamult), and
\* the unit vectors from the player to the mouse (mouse_pos), the random
\* deviation of the shot being 0 degrees.
KeySets == {{}, {"w"}, {"a"}, {"s"}, {"d"}, {"a", "d"}}

DeltaMults == {1}

AimDirs == {<<1, 0>>, <<-1, 0>>}

\* keycardid of the door and key card classes.
DoorClass == [BlueDoor |-> 1, RedDoor |-> 2, YellowDoor |-> 3]

KeyCardClass == [BlueKeyCard |-> 1, RedKeyCard |-> 2, YellowKeyCard |-> 3]

\* weapclass of the weapon pickup classes.
WeaponPickupClass ==
    [ PistolPickupItem |-> "Pistol", ShotgunPickupItem |-> "Shotgun",
      MachineGunPickupItem |-> "MachineGun",
      DoubleBarrelShotgunPickupItem |-> "DoubleBarrelShotgun",
      DesertEaglePickupItem |-> "DesertEagle",
      RocketLauncherPickupItem |-> "RocketLauncher",
      AssaultRiflePickupItem |-> "AssaultRifle",
      QuadBarrelShotgunPickupItem |-> "QuadBarrelShotgun",
      TouchOfDeathPickupItem |-> "TouchOfDeath" ]

\* WEAPON_PICKUP_CLASSES: the pickup class of a weapon class.
WeaponPickupOf(c) ==
    CHOOSE p \in DOMAIN WeaponPickupClass : WeaponPickupClass[p] = c

\* _weapon, _ammo, _speed and drop of the enemy classes.
EnemyClass ==
    [ Pistoller     |-> [weapon |-> "Pistol", ammo |-> 30, speed |-> 3,
                         drop |-> <<>>],
      Shotgunner    |-> [weapon |-> "Shotgun", ammo |-> 20, speed |-> 2,
                         drop |-> <<>>],
      Defender      |-> [weapon |-> "Pistol", ammo |-> 200, speed |-> 0,
                         drop |-> <<>>],
      SchoolShooter |-> [weapon |-> "AssaultRifle", ammo |-> 1000, speed |-> 1,
                         drop |-> <<>>],
      Death         |-> [weapon |-> "TouchOfDeath", ammo |-> 2000000,
                         speed |-> 3, drop |-> <<"BlueKeyCard">>] ]

\* bullet_size // 2 of the weapon classes.
BulletHalfSize ==
    [ Pistol |-> 1, Shotgun |-> 1, MachineGun |-> 0, RocketLauncher |-> 12,
      TouchOfDeath |-> 12, DoubleBarrelShotgun |-> 1, DesertEagle |-> 1,
      AssaultRifle |-> 0, QuadBarrelShotgun |-> 1 ]

\* Wall(coords): Sprite.__init__, HasCollision.__init__
NewWall(coords) ==
    [family |-> "Wall", cls |-> "Wall", coords |-> coords, points |-> coords,
     can_collide |-> TRUE, in_sprites |-> TRUE]

\* A Door subclass instantiated.  collided_by, opened_by and opened_with
\* are history: the names of the sprites whose collision ran on_collide,
\* each with whether the door's keycard was held then; the name of the one
\* on whose collision the door opened; and the keycards held then.
NewDoor(cls, coords) ==
    [family |-> "Door", cls |-> cls, coords |-> coords, points |-> coords,
     can_collide |-> TRUE, in_sprites |-> TRUE, keycardid |-> DoorClass[cls],
     collided_by |-> {}, opened_by |-> "", opened_with |-> {}]

\* An Item subclass instantiated (Item.__init__).  calls and runs are
\* history: the on_pickup() calls made on the item and the runs of its
\* on_pickup_item().
NewItem(cls, coords) ==
    [family |-> "Item", cls |-> cls, coords |-> coords, points |-> coords,
     can_collide |-> TRUE, in_sprites |-> TRUE, picked_up |-> FALSE,
     calls |-> 0, runs |-> 0]

\* Player(coords): PlayerOrEnemy.__init__
NewPlayer(coords) ==
    LET Sprite(s) ==
            [family |-> "Player", cls |-> "Player", coords |-> coords,
             points |-> coords, can_collide |-> TRUE,
             in_sprites |-> s.in_sprites, hp |-> s.hp, armor |-> s.armor,
             dead |-> s.dead]
    IN  Sprite(NewSentient("Player"))

\* An Enemy subclass instantiated (Enemy.__init__); the enemy owns its
\* Weapon.
NewEnemy(cls, coords) ==
    LET Sprite(s, c) ==
            [family |-> "Enemy", cls |-> cls, coords |-> coords,
             points |-> coords, can_collide |-> TRUE,
             in_sprites |-> s.in_sprites, hp |-> s.hp, armor |-> s.armor,
             dead |-> s.dead, weapon |-> NewWeapon(c.weapon, c.ammo)]
    IN  Sprite(NewSentient(cls), EnemyClass[cls])

\* Bullet.__init__.  life is lifetime * speed (lifetime is rng / speed and
\* falls by 1 a tick).
NewBullet(coords, friendly, speed, dir, rng, dmg, pierce) ==
    [family |-> "Bullet", cls |-> "Bullet", coords |-> coords,
     in_sprites |-> TRUE, speed |-> speed, dir |-> dir, life |-> rng,
     dmg |-> dmg, pierce |-> pierce, flying |-> TRUE, friendly |-> friendly]

----------------------------------------------------------------------------
\* Operations on a game G (a value of the variable game).

\* The elements of a list.
Range(s) == { s[k] : k \in DOMAIN s }

\* list.remove(v) on a list that holds v: the list without the first v.
ListRemove(s, v) ==
    LET i == CHOOSE k \in 1..Len(s) : s[k] = v /\ \A j \in 1..(k - 1) : s[j] # v
    IN  SubSeq(s, 1, i - 1) \o SubSeq(s, i + 1, Len(s))

\* Sprite.__init__ for each of recs in turn (Game.add_sprite): the game
\* with the new sprites, and their identities.
Instantiate(G, recs) ==
    LET first == G.next_id
        new   == first..(first + Len(recs) - 1)
    IN  [g   |-> [G EXCEPT
                    !.sprites = [i \in DOMAIN G.sprites \cup new |->
                                    IF i \in new THEN recs[i - first + 1]
                                    ELSE G.sprites[i]],
                    !.next_id = first + Len(recs)],
         ids |-> [k \in 1..Len(recs) |-> first + k - 1]]

\* Sprite.quit
Quit(G, id) == [G EXCEPT !.sprites[id].in_sprites = FALSE]

\* Sprites(ids).destroy(): quit() on each.
Destroy(G, ids) ==
    [G EXCEPT !.sprites = [i \in DOMAIN G.sprites |->
                              IF i \in ids
                              THEN [G.sprites[i] EXCEPT !.in_sprites = FALSE]
                              ELSE G.sprites[i]]]

\* Tilemap.instantiate_all: the groups of sprites instantiated in turn; the
\* game with the new sprites, and the identities group by group.
RECURSIVE InstantiateAll(_, _)
InstantiateAll(G, groups) ==
    IF groups = <<>> THEN [g |-> G, ids |-> <<>>]
    ELSE LET Cons(h, t) == [g |-> t.g, ids |-> <<h.ids>> \o t.ids]
             Rest(h) == Cons(h, InstantiateAll(h.g, Tail(groups)))
         IN  Rest(Instantiate(G, Head(groups)))

\* The groups that Tilemap.instantiate_all instantiates for the level lvl:
\* walls, enemies, items, doors, the player, the exit.
LevelSprites(lvl) ==
    << [k \in 1..Len(lvl.walls) |-> NewWall(lvl.walls[k])],
       [k \in 1..Len(lvl.enemies) |->
           NewEnemy(lvl.enemies[k].cls, lvl.enemies[k].coords)],
       [k \in 1..Len(lvl.items) |->
           NewItem(lvl.items[k].cls, lvl.items[k].coords)],
       [k \in 1..Len(lvl.doors) |->
           NewDoor(lvl.doors[k].cls, lvl.doors[k].coords)],
       <<NewPlayer(lvl.player_coords)>>,
       <<NewItem("LevelExit", lvl.exit_coords)>> >>

\* GLOOM.start_game: Tilemap.instantiate_all and the lists made of it.  The
\* visibility pass that ends it (try_run("check")) changes only what is
\* drawn and which enemies are active, which is not part of G.
StartGame(G) ==
    LET Lists(r) ==
            [r.g EXCEPT !.keycards = {},
                        !.walls = r.ids[1] \o r.ids[4],
                        !.enemies = r.ids[2],
                        !.items = Append(r.ids[3], r.ids[6][1]),
                        !.doors = r.ids[4],
                        !.player = r.ids[5][1],
                        !.level_exit = r.ids[6][1],
                        !.gen = @ + 1,
                        !.level_first_id = G.next_id]
    IN  Lists(InstantiateAll(G, LevelSprites(G.levels[G.level_index + 1])))

\* The ammunition of the Pistol that GLOOM.__init__ gives the player, and
\* the identity of that Pistol (self.startlevel_weapon).
StartAmmo == 200

StartLevelWeapon == 1

\* GLOOM.__init__, Game.__init__ and GLOOM.ready.  aliased tells whether
\* self.weapons and self.known_weapons are the list objects
\* startlevel_weapons and startlevel_kweapons (they are copies at first).
\* gen, max_runs, nshots and ndirect are history: the start_game() calls
\* made, the most runs of on_pickup_item() any one item has had, the ticks
\* with the mouse held, and the on_pickup() calls made from outside
\* GLOOM.tick; so are exit_runs, level_first_id and nresets: the runs of
\* LevelExit.on_pickup_item, the identity of the first sprite that the
\* latest start_game() instantiated, and the presses of the r key.
\* levels is self.levels.levels, the levels of the level file; after is
\* the calls that root.after holds for game.after; boosts is history, the
\* delayed calls of SpeedBooster._reset_player_speed that have run;
\* spent_hit and stale_hit are history, see SentientScan, and old_pickup,
\* see ItemScan.
GameOn(levels) ==
    StartGame(
        [started |-> TRUE, screen_size |-> ScreenSize, levels |-> levels,
         level_index |-> 0,
         won |-> FALSE, exited |-> FALSE,
         keycards |-> {}, walls |-> <<>>, enemies |-> <<>>, items |-> <<>>,
         doors |-> <<>>, bullets |-> <<>>, player |-> 0, level_exit |-> 0,
         weapon |-> StartLevelWeapon, weapons |-> <<StartLevelWeapon>>,
         known_weapons |-> <<"Pistol">>, aliased |-> FALSE,
         curr_weapon_index |-> 0, player_speed |-> PlayerSpeed,
         event_queue |-> <<>>, sprites |-> <<>>,
         wobj |-> <<NewWeapon("Pistol", StartAmmo)>>,
         next_id |-> 1, next_wid |-> 2,
         gen |-> 0, max_runs |-> 0, nshots |-> 0, ndirect |-> 0,
         exit_runs |-> 0, level_first_id |-> 1, nresets |-> 0,
         auto |-> [weapons |-> <<>>, weapon |-> 0, to_weapons |-> <<>>,
                   to_weapon |-> 0],
         after |-> <<>>, boosts |-> 0, spent_hit |-> FALSE,
         stale_hit |-> FALSE, old_pickup |-> FALSE])

\* The game started on the level file of Levels.
NewGame == GameOn(Levels)

\* Coords.__add__
Shift(c, v) ==
    [x0 |-> c.x0 + v[1], y0 |-> c.y0 + v[2],
     x1 |-> c.x1 + v[1], y1 |-> c.y1 + v[2]]

\* The four corners that HasCollision takes of a rectangle.
Corners(c) == {<<c.x0, c.y0>>, <<c.x1, c.y1>>, <<c.x0, c.y1>>, <<c.x1, c.y0>>}

\* A point within a rectangle, borders included.
Within(c, p) == c.x0 <= p[1] /\ p[1] <= c.x1 /\ c.y0 <= p[2] /\ p[2] <= c.y1

\* The test with its first any() alone: a corner of other within the
\* sprite's coords.
Collides_OneWay(s, other) ==
    /\ s.can_collide
    /\ \E p \in Corners(other) : Within(s.coords, p)

\* The test of HasCollision.collision_check: a corner of other within the
\* sprite's coords, or a corner the sprite had when constructed
\* (self.points) within other.
Collides(s, other) ==
    /\ s.can_collide
    /\ \/ \E p \in Corners(other) : Within(s.coords, p)
       \/ \E p \in Corners(s.points) : Within(other, p)

\* Door.on_collide with the test on the sprite's name left out.
DoorOnCollide_AnySprite(G, id, by) ==
    LET name == G.sprites[by].cls
        G1   == [G EXCEPT !.sprites[id].collided_by =
                    @ \cup {<<name, G.sprites[id].keycardid \in G.keycards>>}]
    IN  IF G.sprites[id].keycardid \in G.keycards
        THEN [G1 EXCEPT !.walls = ListRemove(@, id),
                        !.sprites[id].can_collide = FALSE,
                        !.sprites[id].in_sprites = FALSE,
                        !.sprites[id].opened_by = name,
                        !.sprites[id].opened_with = G.keycards]
        ELSE G1

\* Door.on_collide(sprite), the sprite being by.
DoorOnCollide(G, id, by) ==
    LET name == G.sprites[by].cls
        G1   == [G EXCEPT !.sprites[id].collided_by =
                    @ \cup {<<name, G.sprites[id].keycardid \in G.keycards>>}]
    IN  IF name = "Player" /\ G.sprites[id].keycardid \in G.keycards
        THEN [G1 EXCEPT !.walls = ListRemove(@, id),
                        !.sprites[id].can_collide = FALSE,
                        !.sprites[id].in_sprites = FALSE,
                        !.sprites[id].opened_by = name,
                        !.sprites[id].opened_with = G.keycards]
        ELSE G1

\* on_collide of the sprite id: Door's, or HasCollision's, which does
\* nothing.
OnCollide(G, id, by) ==
    IF G.sprites[id].family = "Door" THEN DoorOnCollide(G, id, by) ELSE G

\* HasCollision.collision_check(other, sprite) on the sprite id: the game
\* afterwards and the value returned.
CollisionCheck(G, id, other, by) ==
    IF Collides(G.sprites[id], other)
    THEN [g |-> OnCollide(G, id, by), hit |-> TRUE]
    ELSE [g |-> G, hit |-> FALSE]

\* The loop of GLOOM.check_wall_collision from the i-th wall on.
RECURSIVE WallScan(_, _, _, _)
WallScan(G, i, coords, by) ==
    IF i > Len(G.walls) THEN [g |-> G, hit |-> FALSE]
    ELSE LET Rest(r) == IF r.hit THEN r
                        ELSE WallScan(r.g, i + 1, coords, by)
         IN  Rest(CollisionCheck(G, G.walls[i], coords, by))

\* GLOOM.check_wall_collision(coords, sprite)
CheckWallCollision(G, coords, by) == WallScan(G, 1, coords, by)

\* PlayerOrEnemy.move(delta) on the sprite id (NSTEPS is 1).  Player.on_move
\* reruns the visibility pass, which is not part of G.
Move(G, id, delta) ==
    LET Moved(ncoords, r) ==
            IF r.hit THEN r.g
            ELSE [r.g EXCEPT !.sprites[id].coords = ncoords]
        To(ncoords) ==
            IF /\ 0 <= ncoords.x0 /\ ncoords.x1 <= G.screen_size[1]
               /\ 0 <= ncoords.y0 /\ ncoords.y1 <= G.screen_size[2]
            THEN Moved(ncoords, CheckWallCollision(G, ncoords, id))
            ELSE G
    IN  To(Shift(G.sprites[id].coords, delta))

\* Enemy.on_die: the enemy's weapon and its drops become items where it
\* stood.  PlayerOrEnemy.on_die does nothing.
OnDie(G, en) ==
    LET s == G.sprites[en]
        Listed(r) == [r.g EXCEPT !.items = @ \o r.ids]
    IN  IF s.family = "Enemy"
        THEN Listed(Instantiate(G,
                 <<NewItem(WeaponPickupOf(s.weapon.cls), s.coords)>> \o
                 [k \in 1..Len(EnemyClass[s.cls].drop) |->
                     NewItem(EnemyClass[s.cls].drop[k], s.coords)]))
        ELSE G

\* en.hit(bullet) on the sprite en, with on_die, send_event("die") and
\* quit() when the hit kills.
HitSprite(G, en, b) ==
    LET Done(r, G1) ==
            IF r.died
            THEN [OnDie(G1, en) EXCEPT !.event_queue = SendEvent(@, "die", en)]
            ELSE G1
        After(r) == Done(r, [G EXCEPT !.sprites[en] = r.e])
    IN  After(Hit(G.sprites[en],
                  [dmg |-> G.sprites[b].dmg, pierce |-> G.sprites[b].pierce]))

\* The corner-containment test on the rectangles a and b: a corner of one
\* within the other.
CornerTest(a, b) ==
    \/ \E p \in Corners(b) : Within(a, p)
    \/ \E p \in Corners(a) : Within(b, p)

\* The loop of Bullet.move over get_sentient(friendly), from the i-th on.
\* spent_hit is history: en.hit(self) has been called by a bullet whose
\* flying was False, that is one that had stopped or hit before.
\* stale_hit is history: en.hit(self) has been called with the bullet's
\* coords and en's coords failing the corner-containment test.
RECURSIVE SentientScan(_, _, _, _)
SentientScan(G, targets, i, b) ==
    IF i > Len(targets) THEN G
    ELSE LET After(r) ==
                 IF r.hit
                 THEN [HitSprite(r.g, targets[i], b) EXCEPT
                          !.sprites[b].in_sprites = FALSE,
                          !.sprites[b].flying = FALSE,
                          !.spent_hit = @ \/ ~r.g.sprites[b].flying,
                          !.stale_hit =
                              @ \/ ~CornerTest(G.sprites[targets[i]].coords,
                                               G.sprites[b].coords)]
                 ELSE r.g
         IN  SentientScan(After(CollisionCheck(G, targets[i],
                                               G.sprites[b].coords, b)),
                          targets, i + 1, b)

\* GLOOM.get_sentient
GetSentient(G, friendly) == IF friendly THEN G.enemies ELSE <<G.player>>

\* Bullet.move on the bullet b.
BulletMove(G, b) ==
    LET s == G.sprites[b]
        Stopped(r) ==
            IF r.hit
            THEN [r.g EXCEPT !.sprites[b].in_sprites = FALSE,
                             !.sprites[b].flying = FALSE]
            ELSE r.g
        Targets(G1) == SentientScan(G1, GetSentient(G1, s.friendly), 1, b)
    IN  [Targets(Stopped(IF s.life <= 0 THEN [g |-> G, hit |-> TRUE]
                         ELSE CheckWallCollision(G, s.coords, b)))
            EXCEPT !.sprites[b].life = @ - s.speed,
                   !.sprites[b].coords =
                       Shift(@, <<s.dir[1] * s.speed, s.dir[2] * s.speed>>)]


\* GLOOM.reset: the sprites of the level are destroyed and the level is
\* built again from the level file.  self.bullets is left as it is.
Reset(G) ==
    StartGame(Destroy(G, Range(G.walls) \cup Range(G.enemies)
                          \cup Range(G.doors) \cup Range(G.items)
                          \cup {G.player}))

\* GLOOM.finish_level adding 2 to level_index.
FinishLevel_SkipsLevel(G) ==
    LET G1 == [G EXCEPT !.level_index = @ + 2]
    IN  IF G1.level_index >= Len(G1.levels)
        THEN [Destroy(G1, DOMAIN G1.sprites) EXCEPT !.won = TRUE]
        ELSE Reset(G1)

\* GLOOM.finish_level
FinishLevel(G) ==
    LET G1 == [G EXCEPT !.level_index = @ + 1]
    IN  IF G1.level_index >= Len(G1.levels)
        THEN [Destroy(G1, DOMAIN G1.sprites) EXCEPT !.won = TRUE]
        ELSE Reset(G1)

\* GLOOM._reset, the handler of the r key: the roster is bound to the
\* start-of-level lists and reset() runs.  With every level finished,
\* start_game() clears the keycards and fails on the level index.
OnResetKey(G) ==
    LET Rebuilt(G1) ==
            IF G1.level_index >= Len(G1.levels)
            THEN [Destroy(G1, Range(G1.walls) \cup Range(G1.enemies)
                                  \cup Range(G1.doors) \cup Range(G1.items)
                                  \cup {G1.player})
                     EXCEPT !.keycards = {}]
            ELSE Reset(G1)
    IN  Rebuilt([G EXCEPT !.weapon = StartLevelWeapon,
                          !.weapons = IF G.aliased THEN @
                                      ELSE <<StartLevelWeapon>>,
                          !.known_weapons = IF G.aliased THEN @
                                            ELSE <<"Pistol">>,
                          !.aliased = TRUE,
                          !.nresets = @ + 1])

\* WeaponPickupItem.on_pickup_item for the weapon class wc.
WeaponPickup(G, wc) ==
    LET held == { k \in 1..Len(G.weapons) : G.wobj[G.weapons[k]].cls = wc }
        wid  == G.next_wid
        Known(G1) ==
            IF wc \notin Range(G.known_weapons)
            THEN [G1 EXCEPT !.known_weapons = Append(@, wc),
                            !.curr_weapon_index = Len(G1.weapons) - 1,
                            !.weapon = wid]
            ELSE G1
    IN  IF held # {}
        THEN LET k == CHOOSE k \in held : \A j \in held : k <= j
             IN  [G EXCEPT !.wobj[G.weapons[k]] = PickupMg(@)]
        ELSE Known([G EXCEPT
                      !.wobj = [i \in DOMAIN G.wobj \cup {wid} |->
                                  IF i = wid
                                  THEN NewWeapon(wc, WeaponClass[wc].bullets_per_mg)
                                  ELSE G.wobj[i]],
                      !.next_wid = wid + 1,
                      !.weapons = Append(@, wid)])

\* on_pickup_item of the item id, by its class.  after holds the calls
\* that root.after is to make (game.after), here the _reset_player_speed
\* of a SpeedBooster with its _reset_to.
OnPickupItem(G, id) ==
    LET cls == G.sprites[id].cls
        p   == G.player
    IN  CASE cls \in DOMAIN KeyCardClass ->
               [G EXCEPT !.keycards = @ \cup {KeyCardClass[cls]}]
          [] cls \in DOMAIN WeaponPickupClass ->
               WeaponPickup(G, WeaponPickupClass[cls])
          [] cls = "SpeedBooster" ->
               [G EXCEPT !.player_speed = @ + 1,
                         !.after = Append(@, [reset_to |-> G.player_speed])]
          [] cls = "MediKit" ->
               IF G.sprites[p].hp < 100 * PierceScale
               THEN [G EXCEPT !.sprites[p].hp =
                        Min(@ + 25 * PierceScale, 100 * PierceScale)]
               ELSE G
          [] cls = "StimPack" ->
               IF G.sprites[p].hp < 100 * PierceScale
               THEN [G EXCEPT !.sprites[p].hp =
                        Min(@ + 10 * PierceScale, 100 * PierceScale)]
               ELSE G
          [] cls = "Supercharge" ->
               [G EXCEPT !.sprites[p].hp = 400 * PierceScale]
          [] cls = "Armor" ->
               [G EXCEPT !.sprites[p].armor = 100 * PierceScale]
          [] cls = "LevelExit" ->
               FinishLevel([G EXCEPT !.exit_runs = @ + 1])

\* Item.on_pickup without its test of picked_up.
OnPickup_NoGuard(G, id) ==
    LET G0 == [G EXCEPT !.sprites[id].calls = @ + 1,
                        !.sprites[id].runs = @ + 1,
                        !.max_runs = Max(@, G.sprites[id].runs + 1)]
    IN  [OnPickupItem(G0, id) EXCEPT !.sprites[id].picked_up = TRUE]

\* Item.on_pickup on the item id.
OnPickup(G, id) ==
    LET G0 == [G EXCEPT !.sprites[id].calls = @ + 1]
    IN  IF ~G.sprites[id].picked_up
        THEN LET G1 == [G0 EXCEPT !.sprites[id].runs = @ + 1,
                                  !.max_runs = Max(@, G.sprites[id].runs + 1)]
             IN  [OnPickupItem(G1, id) EXCEPT !.sprites[id].picked_up = TRUE]
        ELSE G0

\* The item loop of GLOOM.tick from the i-th element on.  list is the list
\* object the loop walks, self.items as it was bound when the loop began;
\* same tells whether self.items is still that object (start_game binds a
\* new one).  old_pickup is history: the loop has called on_pickup() on
\* an item instantiated before the latest start_game began.
RECURSIVE ItemScan(_, _, _, _)
ItemScan(G, list, i, same) ==
    IF i > Len(list) THEN G
    ELSE LET item == list[i]
             Removed(G2) ==
                 IF item \in Range(G2.items)
                 THEN [G2 EXCEPT !.items = ListRemove(@, item)]
                 ELSE G2
             Rest(G3, same1) ==
                 ItemScan(G3, IF same1 THEN G3.items ELSE list, i + 1, same1)
             Picked(G1) ==
                 Rest(Removed(Quit(G1, item)), same /\ G1.gen = G.gen)
             After(r) ==
                 IF ~r.hit THEN ItemScan(r.g, list, i + 1, same)
                 ELSE Picked(OnPickup(
                          [r.g EXCEPT !.old_pickup =
                              @ \/ item < r.g.level_first_id],
                          item))
         IN  After(CollisionCheck(G, item, G.sprites[G.player].coords,
                                  G.player))

\* The item loop of GLOOM.tick.
ItemLoop(G) == ItemScan(G, G.items, 1, TRUE)

\* The bullet loop of GLOOM.tick from the i-th element of self.bullets on.
RECURSIVE BulletScan(_, _)
BulletScan(G, i) ==
    IF i > Len(G.bullets) THEN G
    ELSE LET b  == G.bullets[i]
             G1 == IF ~G.sprites[b].flying
                   THEN [G EXCEPT !.bullets = ListRemove(@, b)]
                   ELSE G
         IN  BulletScan(BulletMove(G1, b), i + 1)

\* Sprite.center_point
CenterPoint(c) == <<(c.x0 + c.x1) \div 2, (c.y0 + c.y1) \div 2>>

\* GLOOM.tick: self.weapon.tick(...) with the mouse held or not, and the
\* bullets of the shot instantiated (Weapon.shoot: one bullet per bullet
\* angle, about the player's centre, flying along aim).
WeaponStep(G, held, aim) ==
    LET Box(src, h) == [x0 |-> src[1] - h, y0 |-> src[2] - h,
                        x1 |-> src[1] + h, y1 |-> src[2] + h]
        Bullets(r, c, box) ==
            [k \in 1..r.out |->
                NewBullet(box, TRUE, c.speed, aim, c.rng, c.dmg, c.pierce)]
        Added(nb) == [nb.g EXCEPT !.bullets = @ \o nb.ids,
                                  !.nshots = IF held THEN @ + 1 ELSE @]
        Shot(r) ==
            Added(Instantiate([G EXCEPT !.wobj[G.weapon] = r.w],
                      Bullets(r, WeaponClass[r.w.cls],
                              Box(CenterPoint(G.sprites[G.player].coords),
                                  BulletHalfSize[r.w.cls]))))
    IN  Shot(Tick(G.wobj[G.weapon], held))

\* GLOOM.tick: the active weapon, when out of ammunition, leaves the
\* roster for its last weapon.  auto is history: the roster and the active
\* weapon that the latest test with an empty active weapon found, and
\* those it left.
AutoSwitch(G) ==
    LET Noted(G1) ==
            [G1 EXCEPT !.auto = [weapons |-> G.weapons, weapon |-> G.weapon,
                                 to_weapons |-> G1.weapons,
                                 to_weapon |-> G1.weapon]]
    IN  IF G.wobj[G.weapon].left = 0
        THEN IF Len(G.weapons) > 1
             THEN LET ws == ListRemove(G.weapons, G.weapon)
                  IN  Noted([G EXCEPT !.weapons = ws, !.weapon = ws[Len(ws)]])
             ELSE Noted(G)
        ELSE G

\* GLOOM.tick: tick() on the weapons of the roster that are not the active
\* one, from the i-th slot on.
RECURSIVE OthersTick(_, _)
OthersTick(G, i) ==
    IF i > Len(G.weapons) THEN G
    ELSE LET wid == G.weapons[i]
         IN  OthersTick(IF wid = G.weapon THEN G
                        ELSE [G EXCEPT !.wobj[wid] = Tick(@, FALSE).w],
                        i + 1)

\* The digit keys that GLOOM.tick tests, in its order.
DigitKeys == <<"1", "2", "3", "4", "5", "6", "7", "8">>

\* GLOOM.tick: the digit keys from the dig-th on.
RECURSIVE SwitchKeys(_, _, _)
SwitchKeys(G, keys, dig) ==
    IF dig > Len(DigitKeys) THEN G
    ELSE IF DigitKeys[dig] \in keys /\ Len(G.weapons) >= dig
    THEN LET ws == IF G.curr_weapon_index + 1 <= Len(G.weapons)
                   THEN [G.weapons EXCEPT ![G.curr_weapon_index + 1] = G.weapon]
                   ELSE G.weapons
         IN  SwitchKeys([G EXCEPT !.weapons = ws, !.weapon = ws[dig],
                                  !.curr_weapon_index = dig - 1],
                        keys, dig + 1)
    ELSE SwitchKeys(G, keys, dig + 1)

\* GLOOM.tick: the move of the player for one of the keys w, a, s, d.
KeyMove(G, keys, key, delta) ==
    IF key \in keys THEN Move(G, G.player, delta) ELSE G

\* GLOOM.tick: the moves of the player for the keys w, a, s, d, in that
\* order.
PlayerMoves(G, keys, deltamult) ==
    LET Steps(step) ==
            KeyMove(KeyMove(KeyMove(KeyMove(G, keys, "w", <<0, -step>>),
                                    keys, "a", <<-step, 0>>),
                            keys, "s", <<0, step>>),
                    keys, "d", <<step, 0>>)
    IN  Steps(G.player_speed * deltamult)

\* GLOOM.tick(delta)
GameTick(G, keys, deltamult, held, aim) ==
    ItemLoop(
        BulletScan(
            SwitchKeys(
                OthersTick(
                    AutoSwitch(
                        WeaponStep(PlayerMoves(G, keys, deltamult),
                                   held, aim)),
                    1),
                keys, 1),
            1))

\* GLOOM._on_die(who).  Game.destroy ends the program.
OnDieEvent(G, who) ==
    IF who \in Range(G.enemies)
    THEN [G EXCEPT !.enemies = ListRemove(@, who)]
    ELSE IF who = G.player
    THEN [Destroy(G, DOMAIN G.sprites) EXCEPT !.exited = TRUE]
    ELSE G

\* The loop of Game._internal_tick that empties the event queue ("die" is
\* the one event type sent here).
RECURSIVE DrainEvents(_)
DrainEvents(G) ==
    IF G.event_queue = <<>> \/ G.exited THEN G
    ELSE LET ev == Head(G.event_queue)
             G1 == [G EXCEPT !.event_queue = Tail(@)]
         IN  DrainEvents(IF ev.etype = "die" THEN OnDieEvent(G1, ev.caller)
                         ELSE G1)

\* The sprites that nothing refers to any more leave game.sprites, and the
\* weapons that left the roster leave game.wobj.
Referenced(G) ==
    Range(G.walls) \cup Range(G.enemies) \cup Range(G.items)
        \cup Range(G.doors) \cup Range(G.bullets)
        \cup {G.player, G.level_exit}
        \cup { G.event_queue[k].caller : k \in DOMAIN G.event_queue }

Collect(G) ==
    [G EXCEPT !.sprites = [i \in DOMAIN G.sprites \cap Referenced(G) |->
                              G.sprites[i]],
              !.wobj = [i \in DOMAIN G.wobj
                                 \cap (Range(G.weapons)
                                         \cup {G.weapon, StartLevelWeapon}) |->
                           G.wobj[i]]]

----------------------------------------------------------------------------
\* The game under its ticks.

GameInit ==
    /\ game = NewGame
    /\ NoWeapon
    /\ NoSentient

\* Game._internal_tick on the game G: the event queue is emptied and
\* GLOOM.tick runs, for the keys that are down, the frame time and the
\* direction of the mouse at that moment; held is mouse_held.
InternalTick(G, keys, deltamult, held, aim) ==
    LET Tick1(G1) ==
            IF G1.exited THEN G1 ELSE GameTick(G1, keys, deltamult, held, aim)
    IN  Tick1(DrainEvents(G))

\* A tick with the mouse button up.
TickMouseUp ==
    \E keys \in KeySets, deltamult \in DeltaMults :
        /\ ~game.exited
        /\ game' = Collect(InternalTick(game, keys, deltamult, FALSE,
                                        <<0, 0>>))
        /\ UNCHANGED <<wvars, hvars>>

\* A tick with the mouse button held.
TickMouseHeld ==
    \E keys \in KeySets, deltamult \in DeltaMults, aim \in AimDirs :
        /\ ~game.exited
        /\ game.nshots < MaxShots
        /\ game' = Collect(InternalTick(game, keys, deltamult, TRUE, aim))
        /\ UNCHANGED <<wvars, hvars>>

\* The two self.move(...) calls of Enemy.sprite_tick, for an enemy whose
\* timer still runs and whose _speed is 0: both move vectors are then the
\* zero vector.  (The tests on target and ammunition that sprite_tick makes
\* before them are left open.)
EnemyMove ==
    \E e \in Range(game.enemies) :
        /\ ~game.exited
        /\ game.sprites[e].in_sprites
        /\ EnemyClass[game.sprites[e].cls].speed = 0
        /\ game' = Move(Move(game, e, <<0, 0>>), e, <<0, 0>>)
        /\ UNCHANGED <<wvars, hvars>>

\* item.on_pickup() called on an item of self.items from outside
\* GLOOM.tick.
OnPickupCall ==
    \E i \in Range(game.items) :
        /\ ~game.exited
        /\ game.ndirect < MaxDirectCalls
        /\ game' = Collect([OnPickup(game, i) EXCEPT !.ndirect = @ + 1])
        /\ UNCHANGED <<wvars, hvars>>

\* The r key is pressed between two ticks.
ResetKey ==
    /\ ~game.exited
    /\ game.nresets < MaxResets
    /\ game' = Collect(OnResetKey(game))
    /\ UNCHANGED <<wvars, hvars>>

\* The game with the mouse used: the player walks and shoots, the enemy
\* makes its moves.
GameNext == TickMouseUp \/ TickMouseHeld \/ EnemyMove

SpecGame == GameInit /\ [][GameNext]_vars

\* The game with the mouse left alone and on_pickup() also called on the
\* items from outside the tick.
PickupNext == TickMouseUp \/ EnemyMove \/ OnPickupCall

SpecPickup == GameInit /\ [][PickupNext]_vars

\* The game played through its levels: the player walks, on_pickup() is
\* also called from outside the tick, and the r key is pressed.
LevelsNext == TickMouseUp \/ OnPickupCall \/ ResetKey

SpecLevels == GameInit /\ [][LevelsNext]_vars

\* The game with shots and resets: the player walks and shoots, and the
\* r key is pressed.
ResetNext == TickMouseUp \/ TickMouseHeld \/ ResetKey

SpecReset == GameInit /\ [][ResetNext]_vars

----------------------------------------------------------------------------
\* Claims about items and doors.

\* The items the game still refers to.
Items == { i \in DOMAIN game.sprites : game.sprites[i].family = "Item" }

\* C9: on_pickup_item() runs at most once on any one item, whatever ticks
\* and on_pickup() calls are made: no item, of this level or of a level
\* left behind, has had a second run, and an item on which on_pickup() was
\* called, however often, has had exactly one run and is marked picked up.
C9_PickedUpOnce ==
    /\ game.max_runs <= 1
    /\ \A i \in Items :
          /\ game.sprites[i].runs <= 1
          /\ game.sprites[i].calls >= 1 =>
                game.sprites[i].runs = 1 /\ game.sprites[i].picked_up
          /\ game.sprites[i].calls = 0 =>
                game.sprites[i].runs = 0 /\ ~game.sprites[i].picked_up

\* The exit of the first level has been picked up and has rebuilt the
\* level within its pickup, and the exit of the last level has had
\* on_pickup() called on it at least twice, with one run.
C9_Witness ==
    /\ game.won
    /\ game.gen = Len(Levels)
    /\ game.sprites[game.level_exit].calls >= 2
    /\ game.sprites[game.level_exit].runs = 1

\* The rectangles a and b have a point in common.
Overlap(a, b) ==
    a.x0 <= b.x1 /\ b.x0 <= a.x1 /\ a.y0 <= b.y1 /\ b.y0 <= a.y1

\* The door d is closed: in the wall list and colliding.
Closed(d) == d \in Range(game.walls) /\ game.sprites[d].can_collide

\* C10: a door of the level stays closed for as long as its keycard is not
\* held; the player is never within a closed door, every move into one
\* being rejected; and a door that is no longer closed was opened by a
\* collision of the Player with the door's keycard held, never by one of
\* an enemy or a bullet.
C10_DoorNeedsKeycard ==
    \A d \in Range(game.doors) :
        /\ game.sprites[d].keycardid \notin game.keycards => Closed(d)
        /\ Closed(d) =>
              ~Overlap(game.sprites[game.player].coords, game.sprites[d].coords)
        /\ ~Closed(d) =>
              /\ d \notin Range(game.walls)
              /\ ~game.sprites[d].can_collide
              /\ game.sprites[d].opened_by = "Player"
              /\ game.sprites[d].keycardid \in game.sprites[d].opened_with

\* A door that the player ran into without the keycard and that an enemy
\* and a bullet ran into with the keycard held, each time staying closed,
\* has been opened by the player.
C10_Witness ==
    \E d \in Range(game.doors) :
        /\ ~Closed(d)
        /\ game.sprites[d].opened_by = "Player"
        /\ <<"Player", FALSE>> \in game.sprites[d].collided_by
        /\ <<"Defender", TRUE>> \in game.sprites[d].collided_by
        /\ <<"Bullet", TRUE>> \in game.sprites[d].collided_by

----------------------------------------------------------------------------
\* Visibility: GameElement.check and GLOOM.check_line_collision, on a map
\* of five rows of seven cells of 2 x 2 pixels,
\*     .......
\*     .......
\*     ^.#.a.#
\*     .......
\*     .......
\* with the player, two walls and an item.  Here the variable game holds
\* the attributes that the visibility pass reads and writes: the wall
\* list, unseen_walls, and of every sprite its coords, active and seen.

SightScreen == <<14, 10>>

\* The sprites of the map by identity, as Tilemap.instantiate_all makes
\* them: the walls 1 and 2, the item 3, the player 4.
SightWalls == <<1, 2>>

SightPlayer == 4

\* The length of one move of the player.
SightStep == 1

\* GLOOM.reset() calls are bounded.
MaxSightResets == 1

\* A sprite of the map.  GameElement.__init__ leaves active and seen False.
\* blocked_by is history: the wall whose line_cross_check ended the
\* sprite's latest check(), 0 when none did.
SightSprite(family, x, y) ==
    [family |-> family, coords |-> [x0 |-> x, y0 |-> y, x1 |-> x + 2, y1 |-> y + 2],
     points |-> [x0 |-> x, y0 |-> y, x1 |-> x + 2, y1 |-> y + 2],
     can_collide |-> TRUE, active |-> FALSE, seen |-> FALSE, blocked_by |-> 0]

\* intersect(p1, p2, p3, p4): whether it returns a point.  ua and ub are
\* the quotients na / denom and nb / denom, tested against 0 and 1.
Intersect(p1, p2, p3, p4) ==
    LET denom == (p4[2] - p3[2]) * (p2[1] - p1[1])
                    - (p4[1] - p3[1]) * (p2[2] - p1[2])
        na == (p4[1] - p3[1]) * (p1[2] - p3[2])
                    - (p4[2] - p3[2]) * (p1[1] - p3[1])
        nb == (p2[1] - p1[1]) * (p1[2] - p3[2])
                    - (p2[2] - p1[2]) * (p1[1] - p3[1])
        InUnit(n) == IF denom > 0 THEN 0 <= n /\ n <= denom
                     ELSE denom <= n /\ n <= 0
    IN  denom # 0 /\ InUnit(na) /\ InUnit(nb)

\* Sprite.center_point, doubled: (coords[0] + coords[1]) * 0.5 times 2.
CenterPoint2(c) == <<c.x0 + c.x1, c.y0 + c.y1>>

\* HasCollision.lines, doubled: the two diagonals of the rectangle the
\* sprite was constructed with.
Lines2(s) ==
    { << <<2 * s.points.x0, 2 * s.points.y0>>, <<2 * s.points.x1, 2 * s.points.y1>> >>,
      << <<2 * s.points.x0, 2 * s.points.y1>>, <<2 * s.points.x1, 2 * s.points.y0>> >> }

\* HasCollision.line_cross_check(p1, p2), on doubled coordinates.
LineCrossCheck(s, p1, p2) ==
    \E l \in Lines2(s) : Intersect(p1, p2, l[1], l[2])

\* The walls of V.walls other than ignore whose diagonals the line from
\* the sprite id to the player crosses.
Crossing(V, id) ==
    { k \in 1..Len(V.walls) :
        /\ V.walls[k] # id
        /\ LineCrossCheck(V.sprites[V.walls[k]],
                          CenterPoint2(V.sprites[id].coords),
                          CenterPoint2(V.sprites[V.player].coords)) }

\* GLOOM.check_line_collision without its test of unseen_walls for a
\* wall.
CheckLineCollision_NoMemory(V, id) ==
    IF Crossing(V, id) # {}
    THEN [v |-> V, blocked |-> TRUE,
          by |-> V.walls[CHOOSE k \in Crossing(V, id) :
                            \A j \in Crossing(V, id) : k <= j]]
    ELSE [v |-> [V EXCEPT !.unseen_walls = @ \ {id}], blocked |-> FALSE,
          by |-> 0]

\* GLOOM.check_line_collision(p1, p2, what, ignore) as check() calls it,
\* what and ignore being the sprite id: the game afterwards, the value
\* returned, and the wall that made it True.
CheckLineCollision(V, id) ==
    IF V.sprites[id].family = "Wall" /\ id \notin V.unseen_walls
    THEN [v |-> V, blocked |-> FALSE, by |-> 0]
    ELSE IF Crossing(V, id) # {}
    THEN [v |-> V, blocked |-> TRUE,
          by |-> V.walls[CHOOSE k \in Crossing(V, id) :
                            \A j \in Crossing(V, id) : k <= j]]
    ELSE [v |-> [V EXCEPT !.unseen_walls = @ \ {id}], blocked |-> FALSE,
          by |-> 0]

\* GameElement.check on the sprite id.
Check(V, id) ==
    LET Seen(r) ==
            IF r.blocked
            THEN [r.v EXCEPT !.sprites[id].active = FALSE,
                             !.sprites[id].blocked_by = r.by]
            ELSE [r.v EXCEPT !.sprites[id].active = TRUE,
                             !.sprites[id].seen = TRUE,
                             !.sprites[id].blocked_by = 0]
    IN  Seen(CheckLineCollision(V, id))

\* Sprites.try_run("check"): check() on every sprite, from the i-th on
\* (the order of the set does not matter: a check() reads of the other
\* sprites only their coords).
RECURSIVE TryRunCheck(_, _)
TryRunCheck(V, i) ==
    IF i > Len(V.sprites) THEN V ELSE TryRunCheck(Check(V, i), i + 1)

\* GLOOM.start_game for the map: the sprites instantiated, unseen_walls a
\* copy of the walls, and the visibility pass.  resets and unseen_before
\* are history: the GLOOM.reset() calls made, and unseen_walls as it was
\* when the latest visibility pass began.
SightStart(resets) ==
    TryRunCheck(
        [sight |-> TRUE, walls |-> SightWalls, unseen_walls |-> Range(SightWalls),
         unseen_before |-> Range(SightWalls),
         player |-> SightPlayer, resets |-> resets,
         sprites |-> << SightSprite("Wall", 4, 4), SightSprite("Wall", 12, 4),
                        SightSprite("Item", 8, 4),
                        SightSprite("Player", 0, 4) >>],
        1)

\* PlayerOrEnemy.move(delta) on the player, with Player.on_move.
SightMoved(V, delta) ==
    LET p == V.player
        Placed(ncoords) ==
            IF /\ 0 <= ncoords.x0 /\ ncoords.x1 <= SightScreen[1]
               /\ 0 <= ncoords.y0 /\ ncoords.y1 <= SightScreen[2]
               /\ \A k \in 1..Len(V.walls) :
                     ~Collides(V.sprites[V.walls[k]], ncoords)
            THEN [V EXCEPT !.sprites[p].coords = ncoords,
                           !.unseen_before = V.unseen_walls]
            ELSE [V EXCEPT !.unseen_before = V.unseen_walls]
    IN  TryRunCheck(Placed(Shift(V.sprites[p].coords, delta)), 1)

SightInit ==
    /\ game = SightStart(0)
    /\ NoWeapon
    /\ NoSentient

\* The player makes a move: one of the four self.player.move(...) calls
\* of GLOOM.tick.
SightMove ==
    \E delta \in {<<0, -SightStep>>, <<-SightStep, 0>>, <<0, SightStep>>,
                  <<SightStep, 0>>} :
        /\ game' = SightMoved(game, delta)
        /\ UNCHANGED <<wvars, hvars>>

\* GLOOM.reset(): the sprites are destroyed and start_game() runs.
SightReset ==
    /\ game.resets < MaxSightResets
    /\ game' = SightStart(game.resets + 1)
    /\ UNCHANGED <<wvars, hvars>>

SightNext == SightMove \/ SightReset

SpecSight == SightInit /\ [][SightNext]_vars

\* The walls of the map.
SightWallSet == Range(game.walls)

C38_SeenWallsOnlyGrow ==
    [][game'.resets = game.resets =>
          /\ game'.unseen_walls \subseteq game.unseen_walls
          /\ \A w \in SightWallSet \ game.unseen_walls :
                /\ w \notin game'.unseen_walls
                /\ game'.sprites[w].active
                /\ game'.sprites[w].seen]_vars

\* In the first level, with no reset made, both walls had been seen when
\* the latest visibility pass began, and in that pass the first wall
\* crossed the line from the second wall to the player and the second
\* wall stayed active and seen.
C38_Witness ==
    /\ game.resets = 0
    /\ game.unseen_before = {}
    /\ game.unseen_walls = {}
    /\ Crossing(game, 2) # {}
    /\ game.sprites[2].active
    /\ game.sprites[2].seen

----------------------------------------------------------------------------
\* Claims about the levels.

\* C12: a step in which LevelExit.on_pickup_item runs adds exactly one to
\* level_index and, when a level is left, starts that level (start_game
\* runs once and the new player stands on that level's start) without
\* setting won, and otherwise, the last level being finished, sets won and
\* starts no level; a step in which it does not run, a tick, an
\* on_pickup() call or a press of the r key, leaves level_index and won
\* as they are; so level_index never falls.
C12_ExitAdvancesLevel ==
    [][ /\ game'.level_index >= game.level_index
        /\ game'.exit_runs \in {game.exit_runs, game.exit_runs + 1}
        /\ game'.exit_runs = game.exit_runs =>
              /\ game'.level_index = game.level_index
              /\ game'.won = game.won
        /\ game'.exit_runs = game.exit_runs + 1 =>
              /\ game'.level_index = game.level_index + 1
              /\ IF game.level_index + 1 < Len(Levels)
                 THEN /\ ~game'.won
                      /\ game'.gen = game.gen + 1
                      /\ game'.sprites[game'.player].in_sprites
                      /\ game'.sprites[game'.player].coords =
                            Levels[game'.level_index + 1].player_coords
                 ELSE /\ game'.won
                      /\ game'.gen = game.gen ]_vars

\* The player has walked into both exits, the first starting the second
\* level and the second ending the game, and the r key has been pressed.
C12_Witness ==
    /\ game.won
    /\ game.ndirect = 0
    /\ game.exit_runs = Len(Levels)
    /\ game.level_index = Len(Levels)
    /\ game.nresets = 1

\* The sprites in the lists of the level: walls (with the doors), enemies,
\* items and bullets.
Listed ==
    Range(game.walls) \cup Range(game.doors) \cup Range(game.enemies)
        \cup Range(game.items) \cup Range(game.bullets)

\* C13: once a level has been started again or another level has been
\* started (start_game has run more than once), the lists of walls, doors,
\* enemies, items and bullets hold only sprites instantiated since that
\* start_game began, and every older sprite has been destroyed.
C13_OldLevelGone ==
    game.gen >= 2 =>
        /\ \A s \in Listed : s >= game.level_first_id
        /\ \A s \in DOMAIN game.sprites :
              s < game.level_first_id => ~game.sprites[s].in_sprites

\* C36: every start of a level, by a level transition or by the r key,
\* finds level_index on an existing level: a step in which start_game()
\* was called (the r key was handled, or a level was built) ends with
\* 0 <= level_index < number of levels.
C36_StartedLevelExists ==
    [][(game'.nresets # game.nresets \/ game'.gen # game.gen) =>
          /\ 0 <= game'.level_index
          /\ game'.level_index < Len(game'.levels)]_vars

----------------------------------------------------------------------------
\* Events: Sprite.send_event, the drain of Game._internal_tick and the
\* handlers GLOOM._on_die and GLOOM._on_shoot, for a level of two enemies
\* (the sprites 1 and 2) and the player (the sprite 3).  Here the variable
\* game holds the event queue, the enemy list, the sprites whose timer
\* runs, and the bullets made by the "shoot" handler.  The scheduler runs
\* one callback at a time: the game tick or the tick of an enemy.

EventEnemies == <<1, 2>>

EventPlayer == 3

\* The events sent and the game ticks are bounded.
MaxEvents == 4

MaxEventTicks == 3

\* Sprite.send_event(etype): the event is put at the end of the queue.
\* n and at are history: the event's rank among the events sent, and the
\* number of game ticks begun when it was sent.
PutEvent(V, etype, caller) ==
    [V EXCEPT !.event_queue = Append(@, [etype |-> etype, caller |-> caller,
                                         n |-> V.sent + 1, at |-> V.ticks]),
              !.sent = @ + 1]

\* The handler that _internal_tick calls for the event ev: GLOOM._on_die
\* removes an enemy from the enemy list and, for the player, destroys the
\* game and exits; GLOOM._on_shoot appends the bullets of the caller's
\* weapon.  log is history: the events dispatched, in order, each with the
\* game tick that dispatched it.
Dispatch(V, ev) ==
    LET Handled(V1) ==
            IF ev.etype = "die"
            THEN IF ev.caller \in Range(V1.enemies)
                 THEN [V1 EXCEPT !.enemies = ListRemove(@, ev.caller)]
                 ELSE IF ev.caller = EventPlayer
                 THEN [V1 EXCEPT !.exited = TRUE, !.running = {}]
                 ELSE V1
            ELSE [V1 EXCEPT !.bullets = Append(@, ev.caller)]
    IN  Handled([V EXCEPT !.log = Append(@, [n |-> ev.n, at |-> ev.at,
                                             tick |-> V.ticks])])

\* The drain with queue.get() taking the event put last.
RECURSIVE DrainQueue_LastFirst(_)
DrainQueue_LastFirst(V) ==
    IF V.event_queue = <<>> \/ V.exited THEN V
    ELSE DrainQueue_LastFirst(
            Dispatch([V EXCEPT !.event_queue = SubSeq(@, 1, Len(@) - 1)],
                     V.event_queue[Len(V.event_queue)]))

\* The while loop of Game._internal_tick: events are taken from the head
\* of the queue until it is empty.  exit(0) in a handler ends the loop.
RECURSIVE DrainQueue(_)
DrainQueue(V) ==
    IF V.event_queue = <<>> \/ V.exited THEN V
    ELSE DrainQueue(Dispatch([V EXCEPT !.event_queue = Tail(@)],
                             Head(V.event_queue)))

\* Sentient.hit with a bullet that kills: on_die(), send_event("die") and
\* quit(), which stops the sprite's timer.  A dead sentient is not hit.
RECURSIVE FatalHits(_, _)
FatalHits(V, victims) ==
    IF victims = <<>> THEN V
    ELSE IF Head(victims) \in V.dead \/ V.sent >= MaxEvents
    THEN FatalHits(V, Tail(victims))
    ELSE FatalHits([PutEvent(V, "die", Head(victims))
                        EXCEPT !.dead = @ \cup {Head(victims)},
                               !.running = @ \ {Head(victims)}],
                   Tail(victims))

\* Game._internal_tick: the drain, then GLOOM.tick, whose bullets kill the
\* sentients of victims in turn.  undrained is history: the events of the
\* queue when the body of the latest tick began.
EventTick(V, victims) ==
    LET Body(V1) ==
            IF V1.exited THEN V1
            ELSE FatalHits([V1 EXCEPT !.undrained = Len(V1.event_queue),
                                      !.bodies = @ + 1], victims)
    IN  Body(DrainQueue([V EXCEPT !.ticks = @ + 1]))

EventInit ==
    /\ game = [events |-> TRUE, event_queue |-> <<>>, enemies |-> EventEnemies,
               running |-> Range(EventEnemies) \cup {EventPlayer},
               dead |-> {}, bullets |-> <<>>, exited |-> FALSE,
               ticks |-> 0, bodies |-> 0, sent |-> 0, log |-> <<>>,
               undrained |-> 0]
    /\ NoWeapon
    /\ NoSentient

\* The timer of the game calls _internal_tick.
EventGameTick ==
    \E victims \in {<<>>, <<1>>, <<2>>, <<3>>, <<1, 2>>, <<2, 1>>, <<1, 3>>,
                    <<3, 2>>} :
        /\ ~game.exited
        /\ game.ticks < MaxEventTicks
        /\ game' = EventTick(game, victims)
        /\ UNCHANGED <<wvars, hvars>>

\* The timer of an enemy calls Enemy.sprite_tick, which finds the enemy
\* active, in range and with bullets left, and sends "shoot".
EnemyShoots ==
    \E e \in game.running \ {EventPlayer} :
        /\ ~game.exited
        /\ game.sent < MaxEvents
        /\ game' = PutEvent(game, "shoot", e)
        /\ UNCHANGED <<wvars, hvars>>

EventNext == EventGameTick \/ EnemyShoots

SpecEvents == EventInit /\ [][EventNext]_vars

----------------------------------------------------------------------------
\* Timers: Game.add_sprite and create_timer, Timer.__call__, Timer.stop,
\* Sprite.quit, Game.run_timers and GLOOM.reset.  Here the variable game
\* holds the list game.timers and, for every sprite made so far, the
\* state of its timer.  (The timer of _internal_tick is never stopped and
\* is left out.)

\* The sprites that GLOOM.start_game instantiates for a level.
LevelSize == 1

\* The resets, the sprites instantiated within a level, and the calls of
\* one timer that root.after holds at one time are bounded.
MaxTimerResets == 1

MaxSpawns == 1

MaxPending == 2

\* Sprite.__init__ with Game.add_sprite: the sprite is in game.sprites and
\* its timer is made, not stopped and not yet called.  pending is the
\* number of calls of the timer that root.after holds; in_level tells a
\* sprite of the lists that GLOOM.reset destroys.  has_quit, late, ticked
\* and swallowed are history: quit() has run; the tick callback was
\* invoked after it; the callback was invoked; the timer was called when
\* stopped.
NewTimed(in_level) ==
    [in_sprites |-> TRUE, in_level |-> in_level, stopped |-> FALSE,
     pending |-> 0, has_quit |-> FALSE, late |-> FALSE, ticked |-> FALSE,
     swallowed |-> FALSE]

\* Timer.__call__ without its test of self.stopped.
TimerCall_NoStopTest(T, scheduled) ==
    [T EXCEPT !.ticked = TRUE, !.late = @ \/ T.has_quit,
              !.pending = IF scheduled THEN @ ELSE @ + 1]

\* Timer.__call__: unless stopped, the callback runs and root.after holds
\* one more call of the timer.  scheduled tells a call made by root.after,
\* which that call uses up.
TimerCall(T, scheduled) ==
    IF ~T.stopped
    THEN [T EXCEPT !.ticked = TRUE, !.late = @ \/ T.has_quit,
                   !.pending = IF scheduled THEN @ ELSE @ + 1]
    ELSE [T EXCEPT !.swallowed = TRUE,
                   !.pending = IF scheduled THEN @ - 1 ELSE @]

\* Game.run_timers: every timer of game.timers is called, from the i-th
\* on.
RECURSIVE RunTimers(_, _)
RunTimers(V, i) ==
    IF i > Len(V.timers) THEN V
    ELSE RunTimers([V EXCEPT !.sprites[V.timers[i]] = TimerCall(@, FALSE)],
                   i + 1)

\* Sprite.quit
TimedQuit(V, id) ==
    [V EXCEPT !.sprites[id].in_sprites = FALSE,
              !.sprites[id].stopped = TRUE,
              !.sprites[id].has_quit = TRUE,
              !.timers = IF id \in Range(@) THEN ListRemove(@, id) ELSE @]

\* Sprites(...).destroy() on the sprites of ids, from the i-th on.
RECURSIVE TimedDestroy(_, _, _)
TimedDestroy(V, ids, i) ==
    IF i > Len(ids) THEN V
    ELSE TimedDestroy(TimedQuit(V, ids[i]), ids, i + 1)

\* instantiate n sprites: each is appended to the sprites, and its timer
\* to game.timers.
RECURSIVE TimedInstantiate(_, _, _)
TimedInstantiate(V, n, in_level) ==
    IF n = 0 THEN V
    ELSE TimedInstantiate(
            [V EXCEPT !.sprites = Append(@, NewTimed(in_level)),
                      !.timers = Append(@, Len(V.sprites) + 1)],
            n - 1, in_level)

\* The sprites of the level lists, in the order of their making.
RECURSIVE LevelList(_, _)
LevelList(V, i) ==
    IF i > Len(V.sprites) THEN <<>>
    ELSE IF V.sprites[i].in_level /\ V.level_of[i] = V.resets
    THEN <<i>> \o LevelList(V, i + 1)
    ELSE LevelList(V, i + 1)

\* GLOOM.reset() followed by run_timers(), as finish_level and _reset call
\* them: game.timers is emptied, the sprites of the level lists are
\* destroyed, start_game instantiates the next sprites and their timers
\* are called.
TimedReset(V) ==
    LET Started(V1) ==
            RunTimers(
                [TimedInstantiate(V1, LevelSize, TRUE)
                    EXCEPT !.resets = @ + 1,
                           !.level_of = @ \o [k \in 1..LevelSize |-> V1.resets + 1]],
                1)
    IN  Started(TimedDestroy([V EXCEPT !.timers = <<>>], LevelList(V, 1), 1))

\* The game after Game.start(): the sprites of the first level, each
\* timer called once by run_timers.  level_of is history: the number of
\* resets made when the sprite was made.
TimerInit ==
    /\ game = RunTimers(
                [TimedInstantiate([timing |-> TRUE, timers |-> <<>>,
                                   sprites |-> <<>>, resets |-> 0,
                                   spawns |-> 0, level_of |-> <<>>],
                                  LevelSize, TRUE)
                    EXCEPT !.level_of = [k \in 1..LevelSize |-> 0]],
                1)
    /\ NoWeapon
    /\ NoSentient

\* root.after calls a timer that it holds.
TimerFires ==
    \E id \in DOMAIN game.sprites :
        /\ game.sprites[id].pending > 0
        /\ game' = [game EXCEPT !.sprites[id] = TimerCall(@, TRUE)]
        /\ UNCHANGED <<wvars, hvars>>

\* quit() of a sprite of game.sprites: a sentient killed, an item picked
\* up, a bullet stopped.
SpriteQuits ==
    \E id \in DOMAIN game.sprites :
        /\ game.sprites[id].in_sprites
        /\ game' = TimedQuit(game, id)
        /\ UNCHANGED <<wvars, hvars>>

\* A sprite is instantiated within the level: a bullet, or an item that
\* a dead enemy drops.  Its timer is in game.timers and is not called.
SpriteSpawns ==
    /\ game.spawns < MaxSpawns
    /\ game' = [TimedInstantiate(game, 1, FALSE)
                    EXCEPT !.spawns = @ + 1,
                           !.level_of = Append(@, game.resets)]
    /\ UNCHANGED <<wvars, hvars>>

\* A level transition or the r key.
LevelResets ==
    /\ game.resets < MaxTimerResets
    /\ game' = TimedReset(game)
    /\ UNCHANGED <<wvars, hvars>>

\* run_timers() called on its own.
RunTimersCall ==
    /\ \A k \in 1..Len(game.timers) :
          game.sprites[game.timers[k]].pending < MaxPending
    /\ game.timers # <<>>
    /\ game' = RunTimers(game, 1)
    /\ UNCHANGED <<wvars, hvars>>

TimerNext ==
    TimerFires \/ SpriteQuits \/ SpriteSpawns \/ LevelResets \/ RunTimersCall

SpecTimers == TimerInit /\ [][TimerNext]_vars

\* C15: no sprite's tick callback has been invoked after the sprite's
\* quit() ran; a sprite that has quit has its timer stopped and out of
\* game.timers.
C15_NoTickAfterQuit ==
    \A id \in DOMAIN game.sprites :
        /\ ~game.sprites[id].late
        /\ game.sprites[id].has_quit =>
              /\ game.sprites[id].stopped
              /\ id \notin Range(game.timers)

\* After a reset, a sprite of the first level that had ticked has quit
\* and its timer, still held by root.after, has been called and has
\* called nothing; another sprite quit with two calls held, and a sprite
\* of the new level ticks.
C15_Witness ==
    /\ game.resets = 1
    /\ \E id \in DOMAIN game.sprites :
          /\ game.level_of[id] = 0
          /\ game.sprites[id].has_quit
          /\ game.sprites[id].ticked
          /\ game.sprites[id].swallowed
    /\ \E id \in DOMAIN game.sprites :
          /\ game.sprites[id].has_quit
          /\ game.sprites[id].pending = MaxPending
    /\ \E id \in DOMAIN game.sprites :
          /\ game.level_of[id] = 1
          /\ ~game.sprites[id].has_quit
          /\ game.sprites[id].pending > 0

----------------------------------------------------------------------------
\* The level loader: the loop of Tilemap.__init__ over the characters of
\* the tile rows, with its merging of wall cells and of door cells.  Here
\* the variable game holds the tile rows read and the attributes and
\* local tables of Tilemap.__init__.  Cells are numbered as in the code,
\* x and y from 0.

\* The rows and columns of the tile maps read are bounded.
TileRows == 3

TileCols == 3

TileCells == (0..(TileCols - 1)) \X (0..(TileRows - 1))

\* The tile maps: rows of empty cells and wall cells, or of empty cells
\* and cells of the first door class.
TileGrids ==
    UNION { [1..TileRows -> [1..TileCols -> {".", c}]] : c \in {"#", "1"} }

\* The state of Tilemap.__init__ before its loop: no walls and no doors,
\* the index tables and the sets of merged cells empty (an index of -1
\* tells a cell that is not in the table).
NewTilemap ==
    [walls |-> <<>>, doors |-> <<>>,
     wall_indices |-> [c \in TileCells |-> -1],
     merged_vertical |-> {}, merged_horizontal |-> {},
     door_indices |-> [c \in TileCells |-> -1],
     door_merged_vertical |-> {}, door_merged_horizontal |-> {}]

\* self.walls[i][1][1] = cell_coords[1]: the second corner of a rectangle
\* replaced by the second corner of the cell (x, y).
Extended(rect, x, y) ==
    [rect EXCEPT !.x1 = CalculateCellCoords(x, y).x1,
                 !.y1 = CalculateCellCoords(x, y).y1]

\* The wall branch whose horizontal merge does not add the two cells to
\* merged_horizontal.
WallCell_UnmarkedMerge(M, x, y) ==
    IF /\ x > 0
       /\ M.wall_indices[<<x - 1, y>>] >= 0
       /\ <<x - 1, y>> \notin M.merged_vertical
    THEN [M EXCEPT !.wall_indices[<<x, y>>] = M.wall_indices[<<x - 1, y>>],
                   !.walls[M.wall_indices[<<x - 1, y>>] + 1] =
                        Extended(@, x, y)]
    ELSE IF /\ y > 0
            /\ M.wall_indices[<<x, y - 1>>] >= 0
            /\ <<x, y - 1>> \notin M.merged_horizontal
    THEN [M EXCEPT !.wall_indices[<<x, y>>] = M.wall_indices[<<x, y - 1>>],
                   !.walls[M.wall_indices[<<x, y - 1>>] + 1] =
                        Extended(@, x, y),
                   !.merged_vertical = @ \cup {<<x, y>>, <<x, y - 1>>}]
    ELSE [M EXCEPT !.wall_indices[<<x, y>>] = Len(M.walls),
                   !.walls = Append(@, CalculateCellCoords(x, y))]

\* The wall branch whose vertical merge does not test merged_horizontal.
WallCell_NoHorizontalTest(M, x, y) ==
    IF /\ x > 0
       /\ M.wall_indices[<<x - 1, y>>] >= 0
       /\ <<x - 1, y>> \notin M.merged_vertical
    THEN [M EXCEPT !.wall_indices[<<x, y>>] = M.wall_indices[<<x - 1, y>>],
                   !.walls[M.wall_indices[<<x - 1, y>>] + 1] =
                        Extended(@, x, y),
                   !.merged_horizontal = @ \cup {<<x, y>>, <<x - 1, y>>}]
    ELSE IF /\ y > 0
            /\ M.wall_indices[<<x, y - 1>>] >= 0
    THEN [M EXCEPT !.wall_indices[<<x, y>>] = M.wall_indices[<<x, y - 1>>],
                   !.walls[M.wall_indices[<<x, y - 1>>] + 1] =
                        Extended(@, x, y),
                   !.merged_vertical = @ \cup {<<x, y>>, <<x, y - 1>>}]
    ELSE [M EXCEPT !.wall_indices[<<x, y>>] = Len(M.walls),
                   !.walls = Append(@, CalculateCellCoords(x, y))]

\* The branch of the loop for the character "#" in the cell (x, y).
WallCell(M, x, y) ==
    IF /\ x > 0
       /\ M.wall_indices[<<x - 1, y>>] >= 0
       /\ <<x - 1, y>> \notin M.merged_vertical
    THEN [M EXCEPT !.wall_indices[<<x, y>>] = M.wall_indices[<<x - 1, y>>],
                   !.walls[M.wall_indices[<<x - 1, y>>] + 1] =
                        Extended(@, x, y),
                   !.merged_horizontal = @ \cup {<<x, y>>, <<x - 1, y>>}]
    ELSE IF /\ y > 0
            /\ M.wall_indices[<<x, y - 1>>] >= 0
            /\ <<x, y - 1>> \notin M.merged_horizontal
    THEN [M EXCEPT !.wall_indices[<<x, y>>] = M.wall_indices[<<x, y - 1>>],
                   !.walls[M.wall_indices[<<x, y - 1>>] + 1] =
                        Extended(@, x, y),
                   !.merged_vertical = @ \cup {<<x, y>>, <<x, y - 1>>}]
    ELSE [M EXCEPT !.wall_indices[<<x, y>>] = Len(M.walls),
                   !.walls = Append(@, CalculateCellCoords(x, y))]

\* The branch of the loop for a digit in the cell (x, y).  Its vertical
\* merge tests merged_horizontal, the set of the wall branch.
DoorCell(M, x, y, digit) ==
    IF /\ x > 0
       /\ M.door_indices[<<x - 1, y>>] >= 0
       /\ <<x - 1, y>> \notin M.door_merged_vertical
    THEN [M EXCEPT !.door_indices[<<x, y>>] = M.door_indices[<<x - 1, y>>],
                   !.doors[M.door_indices[<<x - 1, y>>] + 1].coords =
                        Extended(@, x, y),
                   !.door_merged_horizontal = @ \cup {<<x, y>>, <<x - 1, y>>}]
    ELSE IF /\ y > 0
            /\ M.door_indices[<<x, y - 1>>] >= 0
            /\ <<x, y - 1>> \notin M.merged_horizontal
    THEN [M EXCEPT !.door_indices[<<x, y>>] = M.door_indices[<<x, y - 1>>],
                   !.doors[M.door_indices[<<x, y - 1>>] + 1].coords =
                        Extended(@, x, y),
                   !.door_merged_vertical = @ \cup {<<x, y>>, <<x, y - 1>>}]
    ELSE [M EXCEPT !.door_indices[<<x, y>>] = Len(M.doors),
                   !.doors = Append(@, [cls |-> digit,
                                        coords |-> CalculateCellCoords(x, y)])]

\* The loop of Tilemap.__init__ over the rows and, in a row, over the
\* characters, from the k-th cell on in that order.
RECURSIVE ScanTiles(_, _, _)
ScanTiles(M, grid, k) ==
    IF k >= TileRows * TileCols THEN M
    ELSE ScanTiles(
            IF grid[(k \div TileCols) + 1][(k % TileCols) + 1] = "#"
            THEN WallCell(M, k % TileCols, k \div TileCols)
            ELSE IF grid[(k \div TileCols) + 1][(k % TileCols) + 1] = "1"
            THEN DoorCell(M, k % TileCols, k \div TileCols, 1)
            ELSE M,
            grid, k + 1)

\* A tile map is about to be read.
TilemapStart ==
    /\ \E grid \in TileGrids :
          game = [tiles |-> grid, loaded |-> FALSE, map |-> NewTilemap]
    /\ NoWeapon
    /\ NoSentient

\* Tilemap.__init__
TilemapLoad ==
    /\ ~game.loaded
    /\ game' = [game EXCEPT !.loaded = TRUE,
                            !.map = ScanTiles(NewTilemap, game.tiles, 0)]
    /\ UNCHANGED <<wvars, hvars>>

SpecTilemap == TilemapStart /\ [][TilemapLoad]_vars

\* The cell (x, y) of the tile map read holds the character c.
TileIs(x, y, c) ==
    /\ <<x, y>> \in TileCells
    /\ game.tiles[y + 1][x + 1] = c

\* The cells xa .. xb of the row y are a maximal run of wall cells with no
\* wall cell directly above any of them.
WallRun(xa, xb, y) ==
    /\ xa <= xb
    /\ \A x \in xa..xb : TileIs(x, y, "#") /\ ~TileIs(x, y - 1, "#")
    /\ ~TileIs(xa - 1, y, "#")
    /\ ~TileIs(xb + 1, y, "#")

\* The run xa .. xb of the row y has become one wall rectangle that spans
\* exactly its cells.
OneRectangle(xa, xb, y) ==
    /\ game.map.wall_indices[<<xa, y>>] >= 0
    /\ game.map.walls[game.map.wall_indices[<<xa, y>>] + 1]
          = MergedCoords(xa, y, xb, y)
    /\ \A c \in TileCells :
          game.map.wall_indices[c] = game.map.wall_indices[<<xa, y>>]
              <=> (c[2] = y /\ c[1] \in xa..xb)

\* C16 as stated: every maximal horizontal run of wall cells with no wall
\* cell above it, of any length, yields one rectangle that spans exactly
\* the cells of the run.
C16_EveryRunOneRectangle ==
    game.loaded =>
        \A y \in 0..(TileRows - 1), xa, xb \in 0..(TileCols - 1) :
            WallRun(xa, xb, y) => OneRectangle(xa, xb, y)

\* C16: a maximal horizontal run of two or more wall cells with no wall
\* cell above it yields one rectangle that spans exactly the cells of the
\* run; so does a single such cell, unless the cell below it is a wall
\* cell that is not merged with its own left neighbour, in which case the
\* rectangle of the single cell is extended downward over that cell.
C16_RunOneRectangle ==
    game.loaded =>
        \A y \in 0..(TileRows - 1), xa, xb \in 0..(TileCols - 1) :
            WallRun(xa, xb, y) =>
                IF xa < xb \/ ~TileIs(xa, y + 1, "#") \/ TileIs(xa - 1, y + 1, "#")
                THEN OneRectangle(xa, xb, y)
                ELSE /\ game.map.wall_indices[<<xa, y + 1>>]
                            = game.map.wall_indices[<<xa, y>>]
                     /\ ~OneRectangle(xa, xb, y)

\* A tile map has been read that holds a run of two wall cells with a
\* wall cell below its first cell, which is one rectangle, and a single
\* wall cell whose rectangle the wall cell below it has extended.
C16_Witness ==
    /\ game.loaded
    /\ \E y \in 0..(TileRows - 2), xa \in 0..(TileCols - 2) :
          /\ WallRun(xa, xa + 1, y)
          /\ TileIs(xa, y + 1, "#")
          /\ OneRectangle(xa, xa + 1, y)
    /\ \E y \in 0..(TileRows - 2), xa \in 0..(TileCols - 1) :
          /\ WallRun(xa, xa, y)
          /\ TileIs(xa, y + 1, "#")
          /\ ~OneRectangle(xa, xa, y)

\* The wall cells of the tile map read are an L: the corner (cx, cy), a
\* horizontal arm of h more cells toward dx and a vertical arm of v more
\* cells toward dy.
LShape(cx, cy, dx, h, dy, v) ==
    /\ <<cx + dx * h, cy + dy * v>> \in TileCells
    /\ TileIs(cx, cy, "#")
    /\ TileIs(cx + dx * h, cy, "#")
    /\ TileIs(cx, cy + dy * v, "#")
    /\ \A c \in TileCells :
          TileIs(c[1], c[2], "#") <=>
              \/ c[2] = cy /\ \E k \in 0..h : c[1] = cx + dx * k
              \/ c[1] = cx /\ \E k \in 0..v : c[2] = cy + dy * k

\* The rectangle of the cells from (xa, ya) to (xb, yb), in either order.
Span(xa, ya, xb, yb) ==
    MergedCoords(IF xa <= xb THEN xa ELSE xb, IF ya <= yb THEN ya ELSE yb,
                 IF xa <= xb THEN xb ELSE xa, IF ya <= yb THEN yb ELSE ya)

\* C17: an L of wall cells yields two wall rectangles: one arm with the
\* corner cell, and the other arm without it.
C17_LShapeTwoRectangles ==
    game.loaded =>
        \A cx \in 0..(TileCols - 1), cy \in 0..(TileRows - 1) :
          TileIs(cx, cy, "#") =>
          \A dx \in {-1, 1}, h \in 1..(TileCols - 1) :
            TileIs(cx + dx * h, cy, "#") =>
            \A dy \in {-1, 1}, v \in 1..(TileRows - 1) :
            LShape(cx, cy, dx, h, dy, v) =>
                /\ Len(game.map.walls) = 2
                /\ \/ Range(game.map.walls) =
                         { Span(cx, cy, cx + dx * h, cy),
                           Span(cx, cy + dy, cx, cy + dy * v) }
                   \/ Range(game.map.walls) =
                         { Span(cx, cy, cx, cy + dy * v),
                           Span(cx + dx, cy, cx + dx * h, cy) }

\* Tile maps have been read that hold an L with arms of three cells.
C17_Witness ==
    /\ game.loaded
    /\ \E cx \in {0, TileCols - 1}, cy \in {0, TileRows - 1}, dx, dy \in {-1, 1} :
          LShape(cx, cy, dx, TileCols - 1, dy, TileRows - 1)
    /\ Len(game.map.walls) = 2

\* The tile map read with every door cell replaced by a wall cell.
DoorsAsWalls ==
    [r \in 1..TileRows |-> [c \in 1..TileCols |->
        IF game.tiles[r][c] = "1" THEN "#" ELSE game.tiles[r][c]]]

\* C18: the door rectangles of a tile map of empty cells and door cells
\* of one digit are the wall rectangles of the tile map with its door
\* cells replaced by wall cells.
C18_DoorsMergedLikeWalls ==
    game.loaded /\ (\A c \in TileCells : ~TileIs(c[1], c[2], "#")) =>
        [k \in 1..Len(game.map.doors) |-> game.map.doors[k].coords]
            = ScanTiles(NewTilemap, DoorsAsWalls, 0).walls

\* The wall rectangles of the tile map read that cover the cell c: those
\* that hold the whole box of the cell.
Covering(c) ==
    { k \in 1..Len(game.map.walls) :
        /\ game.map.walls[k].x0 <= CalculateCellCoords(c[1], c[2]).x0
        /\ game.map.walls[k].y0 <= CalculateCellCoords(c[1], c[2]).y0
        /\ CalculateCellCoords(c[1], c[2]).x1 <= game.map.walls[k].x1
        /\ CalculateCellCoords(c[1], c[2]).y1 <= game.map.walls[k].y1 }

\* C37: the wall rectangles of a tile map cover every wall cell exactly
\* once and no other cell: a wall cell lies in exactly one rectangle, and
\* a cell that is not a wall cell lies in none.
C37_WallsCoverWallCellsOnce ==
    game.loaded =>
        \A c \in TileCells :
            Cardinality(Covering(c)) = IF TileIs(c[1], c[2], "#") THEN 1 ELSE 0

\* A tile map has been read in which a wall cell was merged with the one
\* to its left and another with the one above it, a wall cell directly
\* below a horizontally merged one started a rectangle of its own, and
\* some cell is not a wall cell.
C37_Witness ==
    /\ game.loaded
    /\ game.map.merged_horizontal # {}
    /\ game.map.merged_vertical # {}
    /\ \E c \in game.map.merged_horizontal :
          /\ TileIs(c[1], c[2] + 1, "#")
          /\ game.map.wall_indices[<<c[1], c[2] + 1>>] # game.map.wall_indices[c]
    /\ \E c \in TileCells : ~TileIs(c[1], c[2], "#")
    /\ \A c \in TileCells :
          Cardinality(Covering(c)) = IF TileIs(c[1], c[2], "#") THEN 1 ELSE 0

----------------------------------------------------------------------------
\* Movement: PlayerOrEnemy.move on a map of three rows of five cells of
\* 2 x 2 pixels,
\*     ^...A
\*     .....
\*     _.#1.
\* with the player, a Pistoller, a wall, a blue door and the exit.  Here
\* the variable game holds the sprites, the wall list and the keycards.

MoveScreen == <<10, 6>>

\* Tilemap.calculate_cell_coords for cells of 2 x 2 pixels.
MoveCell(x, y) == [x0 |-> 2 * x, y0 |-> 2 * y, x1 |-> 2 * x + 2, y1 |-> 2 * y + 2]

\* The map as Tilemap.__init__ leaves it.
MoveLevel ==
    [walls   |-> <<MoveCell(2, 2)>>,
     enemies |-> <<[cls |-> "Pistoller", coords |-> MoveCell(4, 0)]>>,
     items   |-> <<>>,
     doors   |-> <<[cls |-> "BlueDoor", coords |-> MoveCell(3, 2)]>>,
     player_coords |-> MoveCell(0, 0),
     exit_coords   |-> MoveCell(0, 2)]

\* The move vectors: along one axis, by one pixel or by three.
MoveDeltas ==
    { <<d, 0>> : d \in {-3, -1, 1, 3} } \cup { <<0, d>> : d \in {-3, -1, 1, 3} }

\* GLOOM.start_game for the map, the player holding the keycards given.
\* last is history: the sprite of the latest move() call, its coords
\* before the call, the coords the call computed, and whether these lay
\* within the screen and collided with no wall of the list as it was
\* before the call.
MoveStart(keycards) ==
    LET Lists(r) ==
            [r.g EXCEPT !.keycards = keycards,
                        !.walls = r.ids[1] \o r.ids[4],
                        !.enemies = r.ids[2],
                        !.doors = r.ids[4],
                        !.player = r.ids[5][1]]
    IN  Lists(InstantiateAll(
                [moving |-> TRUE, screen_size |-> MoveScreen, keycards |-> {},
                 walls |-> <<>>, enemies |-> <<>>, doors |-> <<>>,
                 player |-> 0, sprites |-> <<>>, next_id |-> 1,
                 last |-> [id |-> 0, from |-> MoveCell(0, 0),
                           ncoords |-> MoveCell(0, 0), free |-> TRUE]],
                LevelSprites(MoveLevel)))

\* The coords c lie within the screen and collide with no wall of G.walls.
FreeAt(G, c) ==
    /\ 0 <= c.x0 /\ c.x1 <= G.screen_size[1]
    /\ 0 <= c.y0 /\ c.y1 <= G.screen_size[2]
    /\ \A k \in 1..Len(G.walls) : ~Collides(G.sprites[G.walls[k]], c)

\* move() that takes the new coords whatever check_wall_collision says.
MoveCall_Unchecked(G, id, delta) ==
    [G EXCEPT !.sprites[id].coords = Shift(@, delta),
              !.last = [id |-> id, from |-> G.sprites[id].coords,
                        ncoords |-> Shift(G.sprites[id].coords, delta),
                        free |-> FreeAt(G, Shift(G.sprites[id].coords, delta))]]

\* sprite.move(delta) on the sprite id, with the history of the call.
MoveCall(G, id, delta) ==
    [Move(G, id, delta)
        EXCEPT !.last = [id |-> id, from |-> G.sprites[id].coords,
                         ncoords |-> Shift(G.sprites[id].coords, delta),
                         free |-> FreeAt(G, Shift(G.sprites[id].coords, delta))]]

MoveInit ==
    /\ \E keycards \in {{}, {DoorClass["BlueDoor"]}} : game = MoveStart(keycards)
    /\ NoWeapon
    /\ NoSentient

\* One of the self.player.move(...) calls of GLOOM.tick.
PlayerMove ==
    \E delta \in MoveDeltas :
        /\ game' = MoveCall(game, game.player, delta)
        /\ UNCHANGED <<wvars, hvars>>

\* One of the self.move(...) calls of Enemy.sprite_tick.
EnemyMoveCall ==
    \E e \in Range(game.enemies), delta \in MoveDeltas :
        /\ game' = MoveCall(game, e, delta)
        /\ UNCHANGED <<wvars, hvars>>

MoveNext == PlayerMove \/ EnemyMoveCall

SpecMove == MoveInit /\ [][MoveNext]_vars

\* C19: the player and every enemy, which started within the screen and
\* colliding with no wall, lie within the screen and collide with no wall
\* of the wall list; the latest move() call left its sprite at the coords
\* it computed if these were free, and where it was if they were not.
C19_MoversStayFree ==
    /\ \A id \in {game.player} \cup Range(game.enemies) :
          FreeAt(game, game.sprites[id].coords)
    /\ game.last.id # 0 =>
          game.sprites[game.last.id].coords =
              IF game.last.free THEN game.last.ncoords ELSE game.last.from

\* The player has opened the door by a rejected move and stands on the
\* place where the door was, and the enemy's latest move, to coords
\* within the screen, was rejected.
C19_Witness ==
    /\ game.doors # <<>>
    /\ \A d \in Range(game.doors) :
          /\ d \notin Range(game.walls)
          /\ game.sprites[game.player].coords.x0 < game.sprites[d].coords.x1
          /\ game.sprites[d].coords.x0 < game.sprites[game.player].coords.x1
          /\ game.sprites[d].coords.y0 < game.sprites[game.player].coords.y1
    /\ game.last.id \in Range(game.enemies)
    /\ ~game.last.free
    /\ game.last.ncoords.x1 <= game.screen_size[1]
    /\ 0 <= game.last.ncoords.x0
    /\ game.last.ncoords.y1 <= game.screen_size[2]
    /\ 0 <= game.last.ncoords.y0

----------------------------------------------------------------------------
\* HasCollision.collision_check between two boxes as constructed.  Here
\* the variable game holds the two sprites, a wall and the player, and
\* the value that the wall's collision_check returned for the player's
\* coords.

\* The corner coordinates of the boxes are bounded.
MaxCoord == 3

\* The rectangles with corners at whole coordinates, the first corner
\* above and left of the second.
Boxes ==
    { r \in [x0 : 0..MaxCoord, y0 : 0..MaxCoord,
             x1 : 0..MaxCoord, y1 : 0..MaxCoord] :
        r.x0 < r.x1 /\ r.y0 < r.y1 }

\* Two sprites have been constructed: the wall 1 and the player 2.
CollideInit ==
    /\ \E a \in Boxes, b \in Boxes :
          game = [colliding |-> TRUE, keycards |-> {}, walls |-> <<1>>,
                  sprites |-> <<NewWall(a), NewPlayer(b)>>,
                  checked |-> FALSE, collides |-> FALSE]
    /\ NoWeapon
    /\ NoSentient

\* wall.collision_check(player.coords, player)
CollisionCheckCall ==
    /\ ~game.checked
    /\ game' = [CollisionCheck(game, 1, game.sprites[2].coords, 2).g
                    EXCEPT !.checked = TRUE,
                           !.collides = CollisionCheck(game, 1,
                                            game.sprites[2].coords, 2).hit]
    /\ UNCHANGED <<wvars, hvars>>

SpecCollide == CollideInit /\ [][CollisionCheckCall]_vars

\* Some corner of the box b lies in the closed coordinate range of the
\* box a: one of b's two x coordinates lies in a's x range and one of its
\* two y coordinates in a's y range.
CornerIn(a, b) ==
    /\ (a.x0 <= b.x0 /\ b.x0 <= a.x1) \/ (a.x0 <= b.x1 /\ b.x1 <= a.x1)
    /\ (a.y0 <= b.y0 /\ b.y0 <= a.y1) \/ (a.y0 <= b.y1 /\ b.y1 <= a.y1)

\* The boxes a and b overlap in a cross: they share inner points, and
\* neither holds a corner of the other.
Cross(a, b) ==
    /\ a.x0 < b.x1 /\ b.x0 < a.x1 /\ a.y0 < b.y1 /\ b.y0 < a.y1
    /\ ~CornerIn(a, b)
    /\ ~CornerIn(b, a)

\* C20: collision_check returns True exactly when a corner of one box
\* lies in the closed range of the other; for two boxes that overlap in a
\* cross it returns False.
C20_CornerTestBothWays ==
    game.checked =>
        /\ game.collides <=> \/ CornerIn(game.sprites[1].coords, game.sprites[2].coords)
                             \/ CornerIn(game.sprites[2].coords, game.sprites[1].coords)
        /\ Cross(game.sprites[1].coords, game.sprites[2].coords) => ~game.collides

\* collision_check has returned False for two boxes that overlap in a
\* cross.
C20_Witness ==
    /\ game.checked
    /\ Cross(game.sprites[1].coords, game.sprites[2].coords)
    /\ ~game.collides

----------------------------------------------------------------------------
\* Bullets: the bullet loop of GLOOM.tick and Bullet.move, on a level where
\* a shot of the player's Pistol can end in each way, and on one with
\* wider cells.

\* The level file of the tile row
\*     ##A.^...._##        A = defender
\* A bullet shot to the left meets the enemy, one shot to the right meets
\* the wall, one shot downwards meets nothing.
BulletLevels ==
    << [walls   |-> <<MergedCoords(0, 0, 1, 0), MergedCoords(10, 0, 11, 0)>>,
        enemies |-> <<[cls |-> "Defender", coords |-> CalculateCellCoords(2, 0)]>>,
        items   |-> <<>>,
        doors   |-> <<>>,
        player_coords |-> CalculateCellCoords(4, 0),
        exit_coords   |-> CalculateCellCoords(9, 0)] >>

\* A level file of resolution 3x1 on the same screen, of the tile row
\*     A_^                 A = defender
\* Its cells are wider than the step of a Pistol bullet, as the cells of
\* the 64 columns of a display are.
WideLevels ==
    << [walls   |-> <<>>,
        enemies |-> <<[cls |-> "Defender",
                       coords |-> MergedCoords(0, 0, 3, 0)]>>,
        items   |-> <<>>,
        doors   |-> <<>>,
        player_coords |-> MergedCoords(8, 0, 11, 0),
        exit_coords   |-> MergedCoords(4, 0, 7, 0)] >>

\* The directions from the player to the mouse in these levels.
BulletAims == {<<-1, 0>>, <<1, 0>>, <<0, 1>>}

\* The ticks with the mouse held are bounded.
MaxVolleys == 2

BulletInit ==
    /\ \E levels \in {BulletLevels, WideLevels} : game = GameOn(levels)
    /\ NoWeapon
    /\ NoSentient

\* Game._internal_tick with no key down, the mouse button up or held.
BulletTick ==
    \E held \in BOOLEAN, aim \in BulletAims :
        /\ held => game.nshots < MaxVolleys
        /\ ~held => aim = <<1, 0>>
        /\ game' = Collect(InternalTick(game, {}, 1, held, aim))
        /\ UNCHANGED <<wvars, hvars>>

BulletNext == BulletTick

SpecBullets == BulletInit /\ [][BulletNext]_vars

\* C21: in a tick each bullet of the list that is in flight is advanced
\* once, and each bullet of the list that is not in flight leaves the list.
C21_EachBulletAdvancedOnce ==
    [][\A k \in 1..Len(game.bullets) :
          LET b == game.bullets[k]
          IN  IF game.sprites[b].flying
              THEN /\ b \in Range(game'.bullets)
                   /\ game'.sprites[b].life
                          = game.sprites[b].life - game.sprites[b].speed
              ELSE b \notin Range(game'.bullets)]_vars

\* C31: a bullet applies no damage once it has stopped: no hit is applied
\* by a bullet that has hit a target or a wall or run out of lifetime
\* before, in the same move() or in an earlier one.
C31_NoDamageOnceStopped == ~game.spent_hit

----------------------------------------------------------------------------
\* The flight of the bullets alone: the weapon step and the bullet loop of
\* GLOOM.tick with Bullet.move, for the player of BulletLevels standing
\* still.  Here the variable game holds the player's Pistol and the list
\* game.bullets, whose elements are the bullets themselves.

\* The ticks with the mouse held are bounded.
MaxFlights == 3

\* The ways a flight ends.
FlightEnds == {"lifetime", "wall", "target"}

\* Bullet.__init__ for the n-th bullet of the Pistol, shot from the
\* player's centre along dir.  lifetime is rng / speed.  id, end and age
\* are history: the bullet's rank among the bullets shot, what stopped it
\* first, and the ticks it has ended in the list.
NewFlight(n, dir) ==
    LET c == WeaponClass["Pistol"]
        p == CenterPoint(BulletLevels[1].player_coords)
        h == BulletHalfSize["Pistol"]
    IN  [id |-> n, dir |-> dir, speed |-> c.speed,
         coords |-> [x0 |-> p[1] - h, y0 |-> p[2] - h,
                     x1 |-> p[1] + h, y1 |-> p[2] + h],
         lifetime |-> c.rng \div c.speed, flying |-> TRUE, end |-> "",
         age |-> 0]

\* check_wall_collision and the collision_check of the enemy on the
\* coords of a bullet, for the walls and the enemy of the level, which do
\* not move: a corner of the bullet within the rectangle.
Touches(rects, coords) ==
    \E k \in DOMAIN rects : \E p \in Corners(coords) : Within(rects[k], p)

\* Bullet.move.  (Sentient.hit on the enemy met changes no bullet.)
FlightMove(b) ==
    LET spent  == b.lifetime <= 0
        wall   == Touches(BulletLevels[1].walls, b.coords)
        target == Touches(<<BulletLevels[1].enemies[1].coords>>, b.coords)
    IN  [b EXCEPT !.flying = @ /\ ~(spent \/ wall \/ target),
                  !.end = IF @ # "" THEN @
                          ELSE IF spent THEN "lifetime"
                          ELSE IF wall THEN "wall"
                          ELSE IF target THEN "target"
                          ELSE "",
                  !.lifetime = @ - 1,
                  !.coords = Shift(@, <<b.dir[1] * b.speed,
                                        b.dir[2] * b.speed>>)]

\* The bullet loop with "continue" for a bullet that is not flying.
RECURSIVE FlightScan_KeepsStopped(_, _)
FlightScan_KeepsStopped(V, i) ==
    IF i > Len(V.bullets) THEN V
    ELSE IF ~V.bullets[i].flying
    THEN FlightScan_KeepsStopped(V, i + 1)
    ELSE FlightScan_KeepsStopped(
            [V EXCEPT !.bullets[i] = FlightMove(@)], i + 1)

\* The bullet loop of GLOOM.tick, from the i-th index of the list on: the
\* bullet at the index is removed from the list when it is not flying,
\* and move() is called on it (on a removed bullet it changes nothing of
\* the list); the iteration goes on at the next index of the list as it
\* then is.  gone and skipped are history: the ends of the bullets
\* removed, and the bullets that moved to an index already passed.
RECURSIVE FlightScan(_, _)
FlightScan(V, i) ==
    IF i > Len(V.bullets) THEN V
    ELSE IF ~V.bullets[i].flying
    THEN FlightScan(
            [V EXCEPT !.bullets = ListRemove(@, V.bullets[i]),
                      !.gone = @ \cup {V.bullets[i].end},
                      !.skipped = IF i < Len(V.bullets)
                                  THEN @ \cup {V.bullets[i + 1].id}
                                  ELSE @],
            i + 1)
    ELSE FlightScan([V EXCEPT !.bullets[i] = FlightMove(@)], i + 1)

\* GLOOM.tick: the weapon's tick, the bullet of a shot appended to the
\* list, and the bullet loop.
FlightTick(V, held, aim) ==
    LET Aged(V1) ==
            [V1 EXCEPT !.bullets = [k \in DOMAIN @ |->
                                       [@[k] EXCEPT !.age = @ + 1]]]
        Shot(r) ==
            [V EXCEPT !.w = r.w,
                      !.nheld = IF held THEN @ + 1 ELSE @,
                      !.fired = @ + r.out,
                      !.bullets = IF r.out > 0
                                  THEN Append(@, NewFlight(V.fired + 1, aim))
                                  ELSE @]
    IN  Aged(FlightScan(Shot(Tick(V.w, held)), 1))

FlightInit ==
    /\ game = [flight |-> TRUE, w |-> NewWeapon("Pistol", StartAmmo),
               bullets |-> <<>>, nheld |-> 0, fired |-> 0, gone |-> {},
               skipped |-> {}]
    /\ NoWeapon
    /\ NoSentient

\* The game timer calls _internal_tick, the mouse button up or held.
FlightStep ==
    \E held \in BOOLEAN, aim \in BulletAims :
        /\ held => game.nheld < MaxFlights
        /\ ~held => aim = <<1, 0>>
        /\ game' = FlightTick(game, held, aim)
        /\ UNCHANGED <<wvars, hvars>>

FlightNext == FlightStep

\* The timer of the game is called again as long as the game runs.
SpecFlight == FlightInit /\ [][FlightNext]_vars /\ WF_vars(FlightStep)

\* C22: a bullet of the bullet list is out of the list later on; a bullet
\* of range r and speed s has ended fewer than r / s + 2 ticks in the
\* list, and one more for each bullet shot before it.
C22_BulletsLeaveTheList ==
    /\ [](\A k \in DOMAIN game.bullets :
             game.bullets[k].age
                 < WeaponClass["Pistol"].rng \div WeaponClass["Pistol"].speed
                       + 2 + (game.bullets[k].id - 1))
    /\ \A n \in 1..MaxFlights :
          (\E k \in DOMAIN game.bullets : game.bullets[k].id = n)
              ~> ~(\E k \in DOMAIN game.bullets : game.bullets[k].id = n)

\* Bullets have left the list after each of the three ends, one of them
\* a tick late because the loop had passed it by.
C22_Witness ==
    /\ game.gone = FlightEnds
    /\ game.skipped # {}
    /\ game.bullets = <<>>

----------------------------------------------------------------------------
\* The roster: the weapon part of GLOOM.tick with the weapon pickups, on a
\* level that holds three weapons of one magazine each.

\* The level file of the tile row
\*     #_.^.rst.###     r, s, t = the pickups of the RocketLauncher, the
\*                      Shotgun and the TouchOfDeath
RosterLevels ==
    << [walls   |-> <<CalculateCellCoords(0, 0), MergedCoords(9, 0, 11, 0)>>,
        enemies |-> <<>>,
        items   |-> <<[cls |-> "RocketLauncherPickupItem",
                       coords |-> CalculateCellCoords(5, 0)],
                      [cls |-> "ShotgunPickupItem",
                       coords |-> CalculateCellCoords(6, 0)],
                      [cls |-> "TouchOfDeathPickupItem",
                       coords |-> CalculateCellCoords(7, 0)]>>,
        doors   |-> <<>>,
        player_coords |-> CalculateCellCoords(3, 0),
        exit_coords   |-> CalculateCellCoords(1, 0)] >>

\* The sets of keys that can be down in this level.
RosterKeys == {{}, {"d"}, {"2"}}

RosterInit ==
    /\ game = GameOn(RosterLevels)
    /\ NoWeapon
    /\ NoSentient

\* Game._internal_tick, the mouse button up or held, the mouse to the
\* right of the player.
RosterTick ==
    \E keys \in RosterKeys, held \in BOOLEAN :
        /\ held => game.nshots < MaxVolleys
        /\ game' = Collect(InternalTick(game, keys, 1, held, <<1, 0>>))
        /\ UNCHANGED <<wvars, hvars>>

RosterNext == RosterTick

SpecRoster == RosterInit /\ [][RosterNext]_vars

\* C23: when the test of the tick found the active weapon empty and other
\* weapons in the roster, the empty weapon left the roster and the most
\* recently acquired of the remaining weapons became the active one; with
\* no other weapon the active weapon stayed.
C23_EmptyWeaponLeavesRoster ==
    LET a      == game.auto
        others == Range(a.weapons) \ {a.weapon}
    IN  a.weapon # 0 =>
            IF others # {}
            THEN /\ a.weapon \notin Range(a.to_weapons)
                 /\ Range(a.to_weapons) = others
                 /\ a.to_weapon \in others
                 /\ \A w \in others : w <= a.to_weapon
            ELSE /\ a.to_weapon = a.weapon
                 /\ a.to_weapons = a.weapons

\* C34: the roster never holds the same weapon in two slots, and a step
\* takes no weapon out of the roster but the empty active weapon that the
\* automatic switch removes (switching with the number keys removes
\* none).
C34_RosterSlotsDistinct ==
    /\ [](\A j, k \in 1..Len(game.weapons) :
             j # k => game.weapons[j] # game.weapons[k])
    /\ [][\A w \in Range(game.weapons) \ Range(game'.weapons) :
             /\ game'.auto.weapon = w
             /\ w \notin Range(game'.auto.to_weapons)]_vars

----------------------------------------------------------------------------
\* Enemy.sprite_tick, for a Defender (its _speed is 0, so it stays where
\* it is) with the player on one line with it.  Here the variable game
\* holds the enemy's active, target, _ticks_wo_player and weapon, the
\* player's centre and active weapon, and the "shoot" events in the queue.
\* A point is its x coordinate, the enemy's centre is 0, and a target is
\* <<>> for None or <<x>>.

\* The centres the player can have.
AiPositions == {450, 600}

\* The classes the player's active weapon can have.
AiWeapons == {"Pistol", "Shotgun", "RocketLauncher"}

\* The bullets the enemy's weapon can have left.
AiLeft == {0, 1}

\* The ticks without the player in sight and the "shoot" events in the
\* queue are bounded.
MaxIdleTicks == 102

MaxShootQueue == 1

\* (self.target - self.center_point).norm
AiDist(target) == IF target[1] >= 0 THEN target[1] ELSE -target[1]

\* self.weapon.rng of the enemy class cls.
AiRange(cls) == WeaponClass[EnemyClass[cls].weapon].rng

\* The head of sprite_tick without the test on _ticks_wo_player.
Sight_NeverForgets(V) ==
    IF V.active
    THEN [V EXCEPT !.ticks_wo_player = 0, !.target = <<V.player>>,
                   !.idle = 0]
    ELSE [V EXCEPT !.ticks_wo_player = @ + 1, !.idle = @ + 1]

\* The head of sprite_tick: the target is dropped when the counter is
\* 100; an active enemy takes the player's centre for target and zeroes
\* the counter, another one counts.  idle and forgot are history: the
\* ticks in a row that found the enemy not active, and whether the test
\* on the counter has dropped a target.
Sight(V) ==
    LET kept == IF V.ticks_wo_player = 100 THEN <<>> ELSE V.target
    IN  IF V.active
        THEN [V EXCEPT !.ticks_wo_player = 0, !.target = <<V.player>>,
                       !.idle = 0,
                       !.forgot = @ \/ (kept # V.target)]
        ELSE [V EXCEPT !.ticks_wo_player = @ + 1, !.target = kept,
                       !.idle = @ + 1,
                       !.forgot = @ \/ (kept # V.target)]

\* The retreat tested against the range of the enemy's own weapon.
Pursue_OwnRange(V) ==
    IF V.target = <<>> THEN V
    ELSE [V EXCEPT !.advance = AiDist(V.target) > 10 /\ V.w.left > 0,
                   !.retreat = /\ V.w.left = 0
                               /\ AiDist(V.target) <= AiRange(V.cls)]

\* The two pairs of self.move(...) calls of sprite_tick: towards the
\* target, and away from it.  With _speed 0 every move vector is the zero
\* vector, and Enemy.on_move does nothing.  advance and retreat are
\* history: the pairs of calls made.
Pursue(V) ==
    IF V.target = <<>> THEN V
    ELSE [V EXCEPT !.advance = AiDist(V.target) > 10 /\ V.w.left > 0,
                   !.retreat = /\ V.w.left = 0
                               /\ AiDist(V.target)
                                      <= WeaponClass[V.pweapon].rng]

\* The end of sprite_tick without the test of the range.
FireControl_AnyRange(V) ==
    IF V.target = <<>> THEN V
    ELSE IF V.active /\ V.w.left > 0
    THEN [V EXCEPT !.event_queue = Append(@, "shoot"), !.shoot = TRUE]
    ELSE [V EXCEPT !.w = Tick(@, FALSE).w, !.ticked = TRUE]

\* The end of sprite_tick: with a target, send_event("shoot", ...) or
\* self.weapon.tick().  shoot and ticked are history: what the latest
\* sprite_tick did.
FireControl(V) ==
    IF V.target = <<>> THEN V
    ELSE IF /\ V.active
            /\ AiDist(V.target) <= AiRange(V.cls)
            /\ V.w.left > 0
    THEN [V EXCEPT !.event_queue = Append(@, "shoot"), !.shoot = TRUE]
    ELSE [V EXCEPT !.w = Tick(@, FALSE).w, !.ticked = TRUE]

\* Enemy.sprite_tick.  kind is history: the latest call made.
SpriteTick(V) ==
    FireControl(Pursue(Sight(
        [V EXCEPT !.kind = "tick", !.shoot = FALSE, !.ticked = FALSE,
                  !.advance = FALSE, !.retreat = FALSE])))

\* A Defender in a running level: it has shot all of its 200 bullets but
\* left (of its thirteen reloads the last one left 10 more bullets in the
\* magazine than remain), its cooldowns are over, and the visibility pass
\* of start_game has set active.
AiInit ==
    /\ \E left \in AiLeft, active \in BOOLEAN, player \in AiPositions :
          game = [ai |-> TRUE, cls |-> "Defender", active |-> active,
                  target |-> <<>>, ticks_wo_player |-> 0,
                  w |-> [NewWeapon("Pistol", EnemyClass["Defender"].ammo)
                            EXCEPT !.left = left, !.mag = left + 10],
                  player |-> player, pweapon |-> "Pistol",
                  event_queue |-> <<>>, kind |-> "init", idle |-> 0,
                  forgot |-> FALSE, shoot |-> FALSE, ticked |-> FALSE,
                  advance |-> FALSE, retreat |-> FALSE]
    /\ NoWeapon
    /\ NoSentient

\* The timer of the enemy calls sprite_tick.
AiSpriteTick ==
    /\ game.ticks_wo_player < MaxIdleTicks
    /\ Len(game.event_queue) < MaxShootQueue
    /\ game' = SpriteTick(game)
    /\ UNCHANGED <<wvars, hvars>>

\* The player moves: Player.on_move runs check() on the enemy, which sets
\* active by the line of sight, open or blocked by a wall.
AiPlayerMoves ==
    \E player \in AiPositions, sight \in BOOLEAN :
        /\ game' = [game EXCEPT !.player = player, !.active = sight,
                                !.kind = "move"]
        /\ UNCHANGED <<wvars, hvars>>

\* A digit key makes another weapon of the player the active one.
AiPlayerSwitches ==
    \E wc \in AiWeapons :
        /\ game' = [game EXCEPT !.pweapon = wc, !.kind = "switch"]
        /\ UNCHANGED <<wvars, hvars>>

\* The game tick takes a "shoot" event from the queue: GLOOM._on_shoot
\* ticks the enemy's weapon with the shot.
AiShootDispatch ==
    /\ game.event_queue # <<>>
    /\ game' = [game EXCEPT !.event_queue = Tail(@),
                            !.w = Tick(@, TRUE).w,
                            !.kind = "dispatch"]
    /\ UNCHANGED <<wvars, hvars>>

AiNext ==
    AiSpriteTick \/ AiPlayerMoves \/ AiPlayerSwitches \/ AiShootDispatch

SpecEnemy == AiInit /\ [][AiNext]_vars

\* C24: a sprite_tick of an active enemy leaves the player's centre as
\* the target and 0 in the counter; a sprite_tick that follows 100 ticks
\* in a row of the enemy not active, and finds it not active, leaves no
\* target, and there is none as long as no tick finds the enemy active.
C24_TargetTrackedAndForgotten ==
    [][/\ game'.kind = "tick" =>
             /\ game.active =>
                   /\ game'.target = <<game.player>>
                   /\ game'.ticks_wo_player = 0
             /\ (~game.active /\ game.idle >= 100) => game'.target = <<>>
       /\ game'.idle > 100 => game'.target = <<>>]_vars

\* The enemy has dropped a target after 100 ticks and, active again, has
\* the player's centre for target.
C24_Witness ==
    /\ game.forgot
    /\ game.kind = "tick"
    /\ game.active
    /\ game.target = <<game.player>>
    /\ game.ticks_wo_player = 0

\* C25 as stated: a sprite_tick sends "shoot" exactly when the enemy is
\* active, has its target within the range of its weapon and has bullets
\* left, and every other sprite_tick ticks the weapon.
C25_ShootOrTick ==
    [][game'.kind = "tick" =>
          LET fire == /\ game.active
                      /\ game'.target # <<>>
                      /\ AiDist(game'.target) <= AiRange(game.cls)
                      /\ game.w.left > 0
          IN  /\ fire <=> Len(game'.event_queue) = Len(game.event_queue) + 1
              /\ ~fire => game'.ticked]_vars

\* C25, amended: a sprite_tick sends "shoot" exactly when the enemy is
\* active, has its target within the range of its weapon and has bullets
\* left; a sprite_tick that sends none ticks the weapon exactly when the
\* enemy has a target.
C25_ShootOrTickWithTarget ==
    [][game'.kind = "tick" =>
          LET fire == /\ game.active
                      /\ game'.target # <<>>
                      /\ AiDist(game'.target) <= AiRange(game.cls)
                      /\ game.w.left > 0
          IN  /\ fire <=> Len(game'.event_queue) = Len(game.event_queue) + 1
              /\ fire <=> game'.shoot
              /\ game'.ticked <=> (~fire /\ game'.target # <<>>)
              /\ game'.ticked => game'.w = Tick(game.w, FALSE).w
              /\ ~game'.ticked => game'.w = game.w]_vars

\* The latest sprite_tick ticked the weapon of an enemy that is not
\* active, whose cooldown was running after a shot; a "shoot" event has
\* been sent and dispatched before.
C25_Witness ==
    /\ game.kind = "tick"
    /\ game.ticked
    /\ ~game.active
    /\ game.w.left = 0
    /\ game.w.us > 0
    /\ game.w.us < WeaponClass["Pistol"].rate - 1

\* C26 as stated: a sprite_tick of an enemy with a target and no bullets
\* left makes the moves away from the target exactly when the target is
\* within the range of the enemy's weapon.
C26_RetreatWithinOwnRange ==
    [][(game'.kind = "tick" /\ game'.target # <<>> /\ game.w.left = 0) =>
          (game'.retreat <=> AiDist(game'.target) <= AiRange(game.cls))]_vars

\* C26, amended: a sprite_tick makes the moves away from the target
\* exactly when the enemy has a target and no bullets left and the target
\* is within the range of the player's active weapon.
C26_RetreatWithinPlayersRange ==
    [][game'.kind = "tick" =>
          (game'.retreat <=>
              /\ game'.target # <<>>
              /\ game.w.left = 0
              /\ AiDist(game'.target) <= WeaponClass[game.pweapon].rng)]_vars

\* The latest sprite_tick made the moves away from a target that is
\* beyond the range of the enemy's weapon.
C26_Witness ==
    /\ game.kind = "tick"
    /\ game.retreat
    /\ game.target # <<>>
    /\ AiDist(game.target) > AiRange(game.cls)

----------------------------------------------------------------------------
\* The speed boost: SpeedBooster.on_pickup_item and its delayed
\* _reset_player_speed, on a level with two boosters.

\* The level file of the tile row
\*     #_.^.b..b..#        b = speedbooster
SpeedLevels ==
    << [walls   |-> <<CalculateCellCoords(0, 0), CalculateCellCoords(11, 0)>>,
        enemies |-> <<>>,
        items   |-> <<[cls |-> "SpeedBooster",
                       coords |-> CalculateCellCoords(5, 0)],
                      [cls |-> "SpeedBooster",
                       coords |-> CalculateCellCoords(8, 0)]>>,
        doors   |-> <<>>,
        player_coords |-> CalculateCellCoords(3, 0),
        exit_coords   |-> CalculateCellCoords(1, 0)] >>

\* The sets of keys that can be down in this level.
SpeedKeys == {{}, {"a"}, {"d"}}

\* The factors of the step that the time since the last tick gives.
SpeedDeltas == {1, 2}

\* SpeedBooster._reset_player_speed with reset_to for self._reset_to: the
\* attribute speed of the player sprite is assigned.
ResetPlayerSpeed(G, reset_to) ==
    [G EXCEPT !.sprites[G.player] =
                  [f \in DOMAIN @ \cup {"speed"} |->
                      IF f = "speed" THEN reset_to ELSE @[f]],
              !.boosts = @ + 1]

SpeedInit ==
    /\ game = GameOn(SpeedLevels)
    /\ NoWeapon
    /\ NoSentient

\* Game._internal_tick with the mouse button up.
SpeedTick ==
    \E keys \in SpeedKeys, deltamult \in SpeedDeltas :
        /\ game' = Collect(InternalTick(game, keys, deltamult, FALSE,
                                        <<0, 0>>))
        /\ UNCHANGED <<wvars, hvars>>

\* root.after makes the delayed call that game.after asked for.
SpeedCallback ==
    /\ game.after # <<>>
    /\ game' = ResetPlayerSpeed([game EXCEPT !.after = Tail(@)],
                                Head(game.after).reset_to)
    /\ UNCHANGED <<wvars, hvars>>

SpeedNext == SpeedTick \/ SpeedCallback

SpecSpeed == SpeedInit /\ [][SpeedNext]_vars

\* C27: once the delayed call of a picked-up speed boost has run, the
\* speed that the game tick moves the player by is the speed it was
\* before the pickup.
C27_SpeedBoostWearsOff ==
    (game.boosts > 0 /\ game.after = <<>>) => game.player_speed = PlayerSpeed

----------------------------------------------------------------------------
\* Bullets of an enemy and the player on the move: GLOOM._on_shoot,
\* Bullet.move and HasCollision.collision_check on a level with a Death.

\* The level file of the tile row
\*     A....^...._#        A = death
StaleLevels ==
    << [walls   |-> <<CalculateCellCoords(11, 0)>>,
        enemies |-> <<[cls |-> "Death", coords |-> CalculateCellCoords(0, 0)]>>,
        items   |-> <<>>,
        doors   |-> <<>>,
        player_coords |-> CalculateCellCoords(5, 0),
        exit_coords   |-> CalculateCellCoords(10, 0)] >>

\* The sets of keys that can be down in this level.
StaleKeys == {{}, {"a"}, {"d"}}

\* GLOOM._on_shoot for a "shoot" event of the enemy e, whose target lies
\* along dir from its centre: the enemy's weapon is ticked with the shot,
\* and the bullets of the shot are instantiated and appended.
OnShoot(G, e, dir) ==
    LET Box(src, h) == [x0 |-> src[1] - h, y0 |-> src[2] - h,
                        x1 |-> src[1] + h, y1 |-> src[2] + h]
        Bullets(r, c, box) ==
            [k \in 1..r.out |->
                NewBullet(box, FALSE, c.speed, dir, c.rng, c.dmg, c.pierce)]
        Added(nb) == [nb.g EXCEPT !.bullets = @ \o nb.ids,
                                  !.nshots = @ + 1]
        Shot(r) ==
            Added(Instantiate([G EXCEPT !.sprites[e].weapon = r.w],
                      Bullets(r, WeaponClass[r.w.cls],
                              Box(CenterPoint(G.sprites[e].coords),
                                  BulletHalfSize[r.w.cls]))))
    IN  Shot(Tick(G.sprites[e].weapon, TRUE))

StaleInit ==
    /\ game = GameOn(StaleLevels)
    /\ NoWeapon
    /\ NoSentient

\* Game._internal_tick with the mouse button up.
StaleTick ==
    \E keys \in StaleKeys :
        /\ ~game.exited
        /\ game' = Collect(InternalTick(game, keys, 1, FALSE, <<0, 0>>))
        /\ UNCHANGED <<wvars, hvars>>

\* The enemy's sprite_tick has sent "shoot" with the player's centre for
\* target, and the event is dispatched.
StaleShot ==
    \E e \in Range(game.enemies) :
        /\ ~game.exited
        /\ game.sprites[e].in_sprites
        /\ game.nshots < MaxVolleys
        /\ game' = Collect(OnShoot(game, e,
                      IF CenterPoint(game.sprites[game.player].coords)[1]
                             >= CenterPoint(game.sprites[e].coords)[1]
                      THEN <<1, 0>> ELSE <<-1, 0>>))
        /\ UNCHANGED <<wvars, hvars>>

StaleNext == StaleTick \/ StaleShot

SpecStale == StaleInit /\ [][StaleNext]_vars

\* C32: a Player or Enemy is hit by a bullet only if the bullet's box and
\* the entity's current box satisfy the corner-containment test.
C32_HitOnlyAtCurrentBox == ~game.stale_hit

----------------------------------------------------------------------------
\* The item loop of GLOOM.tick across a level transition, on a level file
\* whose first level has an enemy that drops its weapon.

\* The levels of the level file, for the tile rows
\*     level 1:   #A.^r_.....#    A = shotgunner, r = rocketlauncherpickup
\*     level 2:   #^...._....#
DropLevels ==
    << [walls   |-> <<CalculateCellCoords(0, 0), CalculateCellCoords(11, 0)>>,
        enemies |-> <<[cls |-> "Shotgunner",
                       coords |-> CalculateCellCoords(1, 0)]>>,
        items   |-> <<[cls |-> "RocketLauncherPickupItem",
                       coords |-> CalculateCellCoords(4, 0)]>>,
        doors   |-> <<>>,
        player_coords |-> CalculateCellCoords(3, 0),
        exit_coords   |-> CalculateCellCoords(5, 0)],
       [walls   |-> <<CalculateCellCoords(0, 0), CalculateCellCoords(11, 0)>>,
        enemies |-> <<>>,
        items   |-> <<>>,
        doors   |-> <<>>,
        player_coords |-> CalculateCellCoords(1, 0),
        exit_coords   |-> CalculateCellCoords(6, 0)] >>

\* The ticks with the mouse held are bounded.
MaxDropShots == 2

DropInit ==
    /\ game = GameOn(DropLevels)
    /\ NoWeapon
    /\ NoSentient

\* Game._internal_tick with the d key down or no key, the mouse button up
\* or held to the left of the player.
DropTick ==
    \E keys \in {{}, {"d"}}, held \in BOOLEAN :
        /\ ~game.exited
        /\ held => game.nshots < MaxDropShots
        /\ game' = Collect(InternalTick(game, keys, 1, held, <<-1, 0>>))
        /\ UNCHANGED <<wvars, hvars>>

DropNext == DropTick

SpecDrops == DropInit /\ [][DropNext]_vars

\* C33: the item loop calls on_pickup() only on items of the current
\* level, never on an item instantiated before the latest start_game:
\* not in the tick that picks up the level exit, and not later.
C33_OnlyCurrentLevelItems == ~game.old_pickup

----------------------------------------------------------------------------
\* The roster across resets: GLOOM._reset with the automatic switch, on a
\* level with a machine gun, the mouse button and the 1 key held down.

\* The level file of the tile row
\*     #^m......._#        m = machinegunpickup
ArsenalLevels ==
    << [walls   |-> <<CalculateCellCoords(0, 0), CalculateCellCoords(11, 0)>>,
        enemies |-> <<>>,
        items   |-> <<[cls |-> "MachineGunPickupItem",
                       coords |-> CalculateCellCoords(2, 0)]>>,
        doors   |-> <<>>,
        player_coords |-> CalculateCellCoords(1, 0),
        exit_coords   |-> CalculateCellCoords(10, 0)] >>

\* The presses of the r key are bounded.
MaxArsenalResets == 2

ArsenalInit ==
    /\ game = GameOn(ArsenalLevels)
    /\ NoWeapon
    /\ NoSentient

\* Game._internal_tick with the 1 key down and the mouse button held, the
\* mouse on the wall to the left, for as long as the active weapon has
\* bullets left.
ArsenalTick ==
    /\ ~game.exited
    /\ game.wobj[game.weapon].left > 0
    /\ game' = Collect(InternalTick(game, {"1"}, 1, TRUE, <<-1, 0>>))
    /\ UNCHANGED <<wvars, hvars>>

\* The r key is pressed between two ticks, while a weapon other than the
\* start weapon is the active one.
ArsenalReset ==
    /\ ~game.exited
    /\ game.nresets < MaxArsenalResets
    /\ game.weapon # StartLevelWeapon
    /\ game' = Collect(OnResetKey(game))
    /\ UNCHANGED <<wvars, hvars>>

ArsenalNext == ArsenalTick \/ ArsenalReset

SpecArsenal == ArsenalInit /\ [][ArsenalNext]_vars

\* C35: the active weapon is a weapon of the roster.
C35_ActiveWeaponInRoster == game.weapon \in Range(game.weapons)

----------------------------------------------------------------------------
\* The level loader on whole grid lines: every branch of the loop of
\* Tilemap.__init__, its cap on the column, and the IndexError of a list
\* index out of range.  Here the variable game holds the grid lines, the
\* resolution and the attributes and local tables of Tilemap.__init__.
\* (The rectangles are in cells of CellSize.)

\* The column above which the loop skips the characters of a line.
MaxColumn == 64

\* The grid lines read are LoadLead empty cells followed by the cells of
\* a tail, LoadWidth cells in all.
LoadLead == 62

LoadWidth == 66

\* The characters of a tail.
LoadChars == {".", "#", "0", "1", "2", "A", "a", "^", "_"}

\* str.isalpha() and str.isupper(), str.isalpha() and str.islower(),
\* str.isnumeric() and int() on these characters.
IsUpper(char) == char \in {"A"}

IsLower(char) == char \in {"a"}

IsNumeric(char) == char \in {"0", "1", "2"}

IntOf(char) == CASE char = "0" -> 0 [] char = "1" -> 1 [] char = "2" -> 2

\* ord(char) - ord("A") and ord(char) - ord("a") on these characters.
LetterIndex(char) == 0

\* The class tables of the level file.
EnemyArray == <<"Defender">>

ItemArray == <<"BlueKeyCard">>

DoorArray == <<"BlueDoor", "RedDoor">>

\* The resolutions of the level file.
LoadResolutions == {<<64, 2>>, <<66, 2>>}

LoadCells == (0..(LoadWidth - 1)) \X (0..1)

\* The grids: one line with any tail of four cells, or two lines with
\* tails of two cells, empty or doors.
LoadGrids ==
    LET Line(tail) ==
            [x \in 1..LoadWidth |->
                IF x > LoadLead /\ x - LoadLead <= Len(tail)
                THEN tail[x - LoadLead] ELSE "."]
    IN  { <<Line(t)>> : t \in [1..4 -> LoadChars] }
            \cup { <<Line(t), Line(u)>> :
                      t, u \in [1..2 -> {".", "0", "1", "2"}] }

\* array[i] with a Python list: a negative index counts from the end, an
\* index out of range raises IndexError (here <<>>; else <<array[i]>>).
PyIndex(array, i) ==
    IF 0 <= i /\ i < Len(array) THEN <<array[i + 1]>>
    ELSE IF -Len(array) <= i /\ i < 0 THEN <<array[Len(array) + i + 1]>>
    ELSE <<>>

\* The state of Tilemap.__init__ before its loop.  tilemap has "None" for
\* a cell not assigned; player_coords and exit_coords are <<>> for None;
\* raised tells that an exception has ended __init__.
NewLoad(resolution) ==
    [walls |-> <<>>, doors |-> <<>>, enemies |-> <<>>, items |-> <<>>,
     player_coords |-> <<>>, exit_coords |-> <<>>,
     tilemap |-> [c \in (0..(resolution[1] - 1)) \X (0..(resolution[2] - 1))
                    |-> "None"],
     wall_indices |-> [c \in LoadCells |-> -1],
     merged_vertical |-> {}, merged_horizontal |-> {},
     door_indices |-> [c \in LoadCells |-> -1],
     door_merged_vertical |-> {}, door_merged_horizontal |-> {},
     raised |-> FALSE]

\* self.tilemap[y][x] = [cls, cell_coords] with cls = <<>> for a class
\* whose lookup raised, followed by the rest of the branch, which leaves
\* M1.
Assigned(M, M1, x, y, cls) ==
    IF cls = <<>> \/ <<x, y>> \notin DOMAIN M.tilemap
    THEN [M EXCEPT !.raised = TRUE]
    ELSE [M1 EXCEPT !.tilemap[<<x, y>>] = cls[1]]

\* The body of the loop for the character char in the cell (x, y).
LoadCell(M, char, x, y) ==
    IF x > MaxColumn THEN M
    ELSE IF char = "#"
    THEN LET M1 == WallCell(M, x, y)
         IN  IF Len(M1.walls) > Len(M.walls)
             THEN Assigned(M, M1, x, y, <<"Wall">>)
             ELSE M1
    ELSE IF IsUpper(char)
    THEN LET cls == PyIndex(EnemyArray, LetterIndex(char))
         IN  Assigned(M,
                      [M EXCEPT !.enemies =
                          Append(@, [cls |-> cls[1],
                                     coords |-> CalculateCellCoords(x, y)])],
                      x, y, cls)
    ELSE IF IsLower(char)
    THEN LET cls == PyIndex(ItemArray, LetterIndex(char))
         IN  Assigned(M,
                      [M EXCEPT !.items =
                          Append(@, [cls |-> cls[1],
                                     coords |-> CalculateCellCoords(x, y)])],
                      x, y, cls)
    ELSE IF IsNumeric(char)
    THEN LET cls == PyIndex(DoorArray, IntOf(char) - 1)
             M1 == DoorCell(M, x, y, IF cls = <<>> THEN "" ELSE cls[1])
         IN  IF Len(M1.doors) > Len(M.doors)
             THEN Assigned(M, M1, x, y, cls)
             ELSE M1
    ELSE IF char = "^"
    THEN [M EXCEPT !.player_coords = <<CalculateCellCoords(x, y)>>]
    ELSE IF char = "_"
    THEN [M EXCEPT !.exit_coords = <<CalculateCellCoords(x, y)>>]
    ELSE M

\* The loop of Tilemap.__init__ over the lines of grid and, in a line,
\* over its characters, from the character x of the line y on.
RECURSIVE LoadLines(_, _, _, _)
LoadLines(M, grid, x, y) ==
    IF M.raised \/ y >= Len(grid) THEN M
    ELSE IF x >= Len(grid[y + 1]) THEN LoadLines(M, grid, 0, y + 1)
    ELSE LoadLines(LoadCell(M, grid[y + 1][x + 1], x, y), grid, x + 1, y)

\* What Tilemap.__init__ leaves for the grid: its lists and markers, and
\* whether it raised.
Loaded(grid, resolution) ==
    LET M == LoadLines(NewLoad(resolution), grid, 0, 0)
    IN  [walls |-> M.walls, doors |-> M.doors, enemies |-> M.enemies,
         items |-> M.items, player_coords |-> M.player_coords,
         exit_coords |-> M.exit_coords, raised |-> M.raised]

\* A grid is about to be read.
LoaderStart ==
    /\ \E grid \in LoadGrids, resolution \in LoadResolutions :
          game = [loader |-> TRUE, tiles |-> grid, resolution |-> resolution,
                  loaded |-> FALSE, map |-> Loaded(<<>>, resolution)]
    /\ NoWeapon
    /\ NoSentient

\* Tilemap.__init__
LoaderLoad ==
    /\ ~game.loaded
    /\ game' = [game EXCEPT !.loaded = TRUE,
                            !.map = Loaded(game.tiles, game.resolution)]
    /\ UNCHANGED <<wvars, hvars>>

SpecLoader == LoaderStart /\ [][LoaderLoad]_vars

\* The grid read with the cell (x, y) emptied.
Emptied(x, y) ==
    [game.tiles EXCEPT ![y + 1][x + 1] = "."]

\* C28: a cell whose character is none of #, an uppercase letter, a
\* lowercase letter, a digit 1-9, ^ and _ is an empty cell: the grid
\* leaves the walls, doors, enemies, items and markers that it leaves
\* with that cell emptied.
C28_OtherCharactersEmpty ==
    game.loaded =>
        \A y \in 0..(Len(game.tiles) - 1), x \in 0..63 :
            LET char == game.tiles[y + 1][x + 1]
            IN  (/\ char # "#" /\ ~IsUpper(char) /\ ~IsLower(char)
                 /\ char \notin {"1", "2"} /\ char # "^" /\ char # "_")
                    => game.map = Loaded(Emptied(x, y), game.resolution)

\* The grid read with the cells of its columns past the 63rd emptied.
Cut ==
    [y \in 1..Len(game.tiles) |->
        [x \in 1..LoadWidth |->
            IF x - 1 > 63 THEN "." ELSE game.tiles[y][x]]]

\* C29: the cells in the columns past the 63rd are ignored: the grid
\* leaves what it leaves without them, and they raise no error.
C29_ColumnsPast63Ignored ==
    game.loaded => game.map = Loaded(Cut, game.resolution)

\* C30: every door cell is within a door rectangle of the class that its
\* own digit selects.
C30_DoorCellsKeepTheirClass ==
    (game.loaded /\ ~game.map.raised) =>
        \A y \in 0..(Len(game.tiles) - 1), x \in 0..63 :
            LET char == game.tiles[y + 1][x + 1]
            IN  char \in {"1", "2"} =>
                    \E k \in 1..Len(game.map.doors) :
                        /\ game.map.doors[k].cls = DoorArray[IntOf(char)]
                        /\ game.map.doors[k].coords.x0 <= x * CellSize[1]
                        /\ (x + 1) * CellSize[1] <= game.map.doors[k].coords.x1
                        /\ game.map.doors[k].coords.y0 <= y * CellSize[2]
                        /\ (y + 1) * CellSize[2] <= game.map.doors[k].coords.y1

============================================================================
